---- MODULE Spec2Model ----
(***************************************************************************)
(* The Icon Resizer page (src/app/page.tsx, IconResizerDashboard): the     *)
(* React state of the component, the object URLs the browser holds for it, *)
(* and one action per event handler or per continuation of the async       *)
(* processImages between two awaits.  Text (the size field, file names) is *)
(* a sequence of one-character strings, so that split / trim / parseInt    *)
(* and the file name derivation are computed as the code computes them.    *)
(***************************************************************************)
EXTENDS Integers, Sequences, FiniteSets, TLC

\* ------------------------------------------------------------------ bounds
\* Longest selected file list the model explores (handleDrop / handleFileSelect
\* stop adding beyond it).
MaxFiles == 2
\* Number of object URLs the runs of one behaviour may take: a run starts only
\* when the URLs it will create still fit.
MaxUrls == 9
\* Longest size text enumerated by SpecParse.
MaxTextLen == 4
\* Longest file name enumerated by SpecNames.
MaxNameLen == 5
\* Number of downloadAllAsZip calls in one behaviour, and of downloads that
\* the behaviours with downloadIcon go up to.
MaxExports == 2
\* Largest width and height of the images SpecDraw enumerates.
MaxDim == 11
\* Number of steps of the debug console that add to its lists (commands
\* executed, console calls, capture toggles) in one behaviour.
MaxCalls == 3

\* ------------------------------------------------------------------ state
VARIABLES
  files,           \* useState<File[]>([])
  sizes,           \* useState("16,32,48,128")
  processedIcons,  \* useState<ProcessedIcon[]>([])
  isProcessing,    \* useState(false)
  progress,        \* useState(0): a percentage, kept as a reduced fraction
  toast,           \* title of the last toast raised ("" before the first)
  urls,            \* the object URLs created so far: urls[u] is URL number u
  run,             \* the locals of the processImages call in flight
  successes,       \* history: inputs and file names of each successful run
  shownAtStart,    \* history: processedIcons when the run in flight started
  zips,            \* the downloadAllAsZip calls suspended on zip.generateAsync
  downloads,       \* the downloads triggered by link.click(), in order
  unhandled,       \* number of promise rejections that no handler caught
  zipCalls,        \* history: number of downloadAllAsZip calls made
  packager,        \* the state of the ExtensionPackager component
  debugConsole,    \* the state of the DebugConsole component
  consoleWrappers, \* how many capture wrappers window.console's methods carry
  consoleTrace     \* history: what the debug console was given so far

\* The state of the archive export.
zipVars == <<zips, downloads, unhandled, zipCalls>>

\* The state of the icon resizer page.
pageVars == <<files, sizes, processedIcons, isProcessing, progress, toast, urls,
              run, successes, shownAtStart, zips, downloads, unhandled, zipCalls>>

\* The state of the other tools: the extension packager and the debug console.
toolVars == <<packager, debugConsole, consoleWrappers, consoleTrace>>

vars == <<files, sizes, processedIcons, isProcessing, progress, toast, urls,
          run, successes, shownAtStart, zips, downloads, unhandled, zipCalls,
          packager, debugConsole, consoleWrappers, consoleTrace>>

\* ------------------------------------------------------------------- text
\* "16,32,48,128": the initial value of the size field.
DefaultSizes == <<"1","6",",","3","2",",","4","8",",","1","2","8">>
\* "16, 32,48 ,128"
SpacedSizes == <<"1","6",","," ","3","2",",","4","8"," ",",","1","2","8">>
\* "0,-5,abc,64"
MixedSizes == <<"0",",","-","5",",","a","b","c",",","6","4">>
\* "0,-1"
NonPositiveSizes == <<"0",",","-","1">>
\* "16,32"
TwoSizes == <<"1","6",",","3","2">>
\* "8,8"
RepeatedSizes == <<"8",",","8">>
\* ""
EmptyText == <<>>

\* JavaScript white space as String.prototype.trim and parseInt skip it.
IsWhiteSpace(c) == c \in {" ", "\t", "\n"}

DecDigits == <<"0","1","2","3","4","5","6","7","8","9">>
HexLetters == <<"a","b","c","d","e","f">>
HexCapitals == <<"A","B","C","D","E","F">>

\* The value of character c as a digit of the given radix, or -1.
DigitValue(c, radix) ==
  IF \E i \in 1..10 : DecDigits[i] = c
  THEN (CHOOSE i \in 1..10 : DecDigits[i] = c) - 1
  ELSE IF radix = 16 /\ \E i \in 1..6 : HexLetters[i] = c \/ HexCapitals[i] = c
       THEN 9 + (CHOOSE i \in 1..6 : HexLetters[i] = c \/ HexCapitals[i] = c)
       ELSE -1

RECURSIVE TrimStart(_)
TrimStart(s) ==
  IF s # <<>> /\ IsWhiteSpace(Head(s)) THEN TrimStart(Tail(s)) ELSE s

RECURSIVE TrimEnd(_)
TrimEnd(s) ==
  IF s # <<>> /\ IsWhiteSpace(s[Len(s)])
  THEN TrimEnd(SubSeq(s, 1, Len(s) - 1))
  ELSE s

\* String.prototype.trim
Trim(s) == TrimEnd(TrimStart(s))

\* String.prototype.split(","): the pieces between commas, empty pieces kept;
\* the empty string splits into one empty piece.
RECURSIVE SplitFrom(_, _)
SplitFrom(s, piece) ==
  IF s = <<>> THEN <<piece>>
  ELSE IF Head(s) = "," THEN <<piece>> \o SplitFrom(Tail(s), <<>>)
       ELSE SplitFrom(Tail(s), Append(piece, Head(s)))

Split(s) == SplitFrom(s, <<>>)

\* The longest prefix of s made of digits of the radix, as a number;
\* n counts the digits consumed.
RECURSIVE DigitsPrefix(_, _, _, _)
DigitsPrefix(s, radix, acc, n) ==
  IF s # <<>> /\ DigitValue(Head(s), radix) >= 0
  THEN DigitsPrefix(Tail(s), radix, acc * radix + DigitValue(Head(s), radix), n + 1)
  ELSE [value |-> acc, count |-> n]

\* Number.parseInt(s) with no radix argument: skips leading white space, takes
\* an optional sign, takes "0x" / "0X" as a hexadecimal prefix, then reads the
\* longest run of digits and ignores what follows; NaN when there is no digit.
\* A result is [nan |-> BOOLEAN, val |-> Int].
ParseInt(s) ==
  LET s1 == TrimStart(s)
      signed == s1 # <<>> /\ Head(s1) \in {"+", "-"}
      sign == IF s1 # <<>> /\ Head(s1) = "-" THEN -1 ELSE 1
      s2 == IF signed THEN Tail(s1) ELSE s1
      hex == Len(s2) >= 2 /\ s2[1] = "0" /\ s2[2] \in {"x", "X"}
      s3 == IF hex THEN SubSeq(s2, 3, Len(s2)) ELSE s2
      d == DigitsPrefix(s3, IF hex THEN 16 ELSE 10, 0, 0)
  IN IF d.count = 0 THEN [nan |-> TRUE, val |-> 0]
     ELSE [nan |-> FALSE, val |-> sign * d.value]

\* Mutant of IsPositive: (s) => s >= 0.
IsNotNegative(v) == ~v.nan /\ v.val >= 0

\* (s) => s > 0 on a parseInt result: NaN > 0 is false.
IsPositive(v) == ~v.nan /\ v.val > 0

\* sizes.split(",").map((s) => Number.parseInt(s.trim())).filter((s) => s > 0)
ParseSizes(text) ==
  LET pieces == Split(text)
      parsed == [i \in 1..Len(pieces) |-> ParseInt(Trim(pieces[i]))]
      kept == SelectSeq(parsed, IsPositive)
  IN [i \in 1..Len(kept) |-> kept[i].val]

\* The decimal digits of a natural number, as template literals print it.
RECURSIVE ToDigits(_)
ToDigits(n) ==
  IF n < 10 THEN <<DecDigits[n + 1]>>
  ELSE Append(ToDigits(n \div 10), DecDigits[(n % 10) + 1])

\* Mutant of ExtensionStart: the first "." of the name starts the match.
ExtensionStartFirst(name) ==
  LET dots == {i \in 1..Len(name) : name[i] = "."}
      first == IF dots = {} THEN 0
               ELSE CHOOSE i \in dots : \A j \in dots : i <= j
  IN IF first > 0 /\ first < Len(name) THEN first ELSE 0

\* The start of the match of /\.[^/.]+$/ in name: the last "." when at least
\* one character follows it and none of them is "/"; 0 when nothing matches.
ExtensionStart(name) ==
  LET dots == {i \in 1..Len(name) : name[i] = "."}
      last == IF dots = {} THEN 0
              ELSE CHOOSE i \in dots : \A j \in dots : j <= i
  IN IF last > 0 /\ last < Len(name)
        /\ \A j \in (last + 1)..Len(name) : name[j] # "/"
     THEN last ELSE 0

\* Mutant of BaseName: a name without an extension loses its last character.
BaseNameChopped(name) ==
  IF ExtensionStart(name) = 0 THEN SubSeq(name, 1, Len(name) - 1)
  ELSE SubSeq(name, 1, ExtensionStart(name) - 1)

\* file.name.replace(/\.[^/.]+$/, "")
BaseName(name) ==
  IF ExtensionStart(name) = 0 THEN name
  ELSE SubSeq(name, 1, ExtensionStart(name) - 1)

\* Mutant of Filename: the name is made unique with the number of object URLs
\* created so far.
FilenameNumbered(name, size) ==
  BaseName(name) \o <<"_">> \o ToDigits(size) \o <<"x">> \o ToDigits(size)
    \o <<"_">> \o ToDigits(Len(urls)) \o <<".","p","n","g">>

\* `${baseName}_${size}x${size}.png`
Filename(name, size) ==
  BaseName(name) \o <<"_">> \o ToDigits(size) \o <<"x">> \o ToDigits(size)
    \o <<".","p","n","g">>

\* `${file.name}-${size}`
IconId(name, size) == name \o <<"-">> \o ToDigits(size)

\* ------------------------------------------------------------------ files
\* The files a drop or a selection can offer: name, MIME type, whether the
\* browser can decode the content as an image (img.onload or img.onerror),
\* and the width and height of the decoded image.
LogoPng == [name |-> <<"l","o","g","o",".","p","n","g">>, type |-> "image/png",
            decodes |-> TRUE, width |-> 64, height |-> 64]
BadSvg == [name |-> <<"b","a","d",".","s","v","g">>, type |-> "image/svg+xml",
           decodes |-> FALSE, width |-> 0, height |-> 0]
NotesTxt == [name |-> <<"n",".","t","x","t">>, type |-> "text/plain",
             decodes |-> FALSE, width |-> 0, height |-> 0]
FilePool == {LogoPng, BadSvg, NotesTxt}

\* What one drop or one selection carries: one file, or two files.
Batches == {<<f>> : f \in FilePool} \cup {<<LogoPng, g>> : g \in FilePool}

\* The size texts the user types in the behaviours of Spec.
SizeTexts == {DefaultSizes, TwoSizes, RepeatedSizes, NonPositiveSizes, EmptyText}

\* Mutant of IsAccepted: the filter lets every file through.
IsAcceptedAlways(file) == file.type = file.type

\* (file) => file.type === "image/svg+xml" || file.type === "image/png"
IsAccepted(file) == file.type = "image/svg+xml" \/ file.type = "image/png"

\* ------------------------------------------------------ Number arithmetic
\* A JavaScript Number is an IEEE 754 double: sign, 53-bit significand m and
\* exponent e, of value m * 2^e, each operation rounding its exact result to
\* the nearest such value, ties to the even significand.  Significands are
\* naturals written in base 2^18, least significant limb first and without
\* leading zero limbs; the values met here are far from overflow and from
\* the subnormal range.
Precision == 53
LimbBits == 18
Base == 2^LimbBits

RECURSIVE Strip(_)
Strip(a) ==
  IF a # <<>> /\ a[Len(a)] = 0 THEN Strip(SubSeq(a, 1, Len(a) - 1)) ELSE a

\* The natural number n in limbs.
RECURSIVE BigOf(_)
BigOf(n) == IF n = 0 THEN <<>> ELSE <<n % Base>> \o BigOf(n \div Base)

\* a * k + carry, for k below 2^12.
RECURSIVE MulCarry(_, _, _)
MulCarry(a, k, carry) ==
  IF a = <<>> THEN BigOf(carry)
  ELSE LET t == Head(a) * k + carry
       IN <<t % Base>> \o MulCarry(Tail(a), k, t \div Base)

MulSmall(a, k) == Strip(MulCarry(a, k, 0))

\* Quotient q and remainder r of a by k, for k up to 2^12.
RECURSIVE DivRem(_, _)
DivRem(a, k) ==
  IF a = <<>> THEN [q |-> <<>>, r |-> 0]
  ELSE LET hi == DivRem(Tail(a), k)
           t == hi.r * Base + Head(a)
       IN [q |-> <<t \div k>> \o hi.q, r |-> t % k]

DivSmall(a, k) == [q |-> Strip(DivRem(a, k).q), r |-> DivRem(a, k).r]

RECURSIVE AddCarry(_, _, _)
AddCarry(a, b, carry) ==
  IF a = <<>> /\ b = <<>> THEN BigOf(carry)
  ELSE LET x == IF a = <<>> THEN 0 ELSE Head(a)
           y == IF b = <<>> THEN 0 ELSE Head(b)
           t == x + y + carry
       IN <<t % Base>> \o AddCarry(IF a = <<>> THEN a ELSE Tail(a),
                                   IF b = <<>> THEN b ELSE Tail(b),
                                   t \div Base)

Add(a, b) == Strip(AddCarry(a, b, 0))

\* a - b - borrow, for a >= b.
RECURSIVE SubBorrow(_, _, _)
SubBorrow(a, b, borrow) ==
  IF a = <<>> THEN <<>>
  ELSE LET y == IF b = <<>> THEN 0 ELSE Head(b)
           t == Head(a) - y - borrow
       IN <<IF t < 0 THEN t + Base ELSE t>>
            \o SubBorrow(Tail(a), IF b = <<>> THEN b ELSE Tail(b),
                         IF t < 0 THEN 1 ELSE 0)

Sub(a, b) == Strip(SubBorrow(a, b, 0))

\* -1, 0 or 1 as a is below, equal to or above b.
RECURSIVE Cmp(_, _)
Cmp(a, b) ==
  IF Len(a) # Len(b) THEN (IF Len(a) < Len(b) THEN -1 ELSE 1)
  ELSE IF a = <<>> THEN 0
  ELSE IF a[Len(a)] # b[Len(b)] THEN (IF a[Len(a)] < b[Len(b)] THEN -1 ELSE 1)
  ELSE Cmp(SubSeq(a, 1, Len(a) - 1), SubSeq(b, 1, Len(b) - 1))

RECURSIVE BitsOf(_)
BitsOf(n) == IF n = 0 THEN 0 ELSE 1 + BitsOf(n \div 2)

\* The number of binary digits of a.
BitLen(a) ==
  IF a = <<>> THEN 0 ELSE (Len(a) - 1) * LimbBits + BitsOf(a[Len(a)])

\* a * 2^n
RECURSIVE ShiftLeft(_, _)
ShiftLeft(a, n) ==
  IF n = 0 \/ a = <<>> THEN a
  ELSE IF n >= LimbBits THEN <<0>> \o ShiftLeft(a, n - LimbBits)
  ELSE IF n > 12 THEN ShiftLeft(MulSmall(a, 2^12), n - 12)
  ELSE MulSmall(a, 2^n)

\* a \div 2^n as q, and whether a nonzero digit was shifted out as sticky.
RECURSIVE ShiftRight(_, _)
ShiftRight(a, n) ==
  IF n = 0 \/ a = <<>> THEN [q |-> a, sticky |-> FALSE]
  ELSE IF n >= LimbBits
       THEN LET rest == ShiftRight(Tail(a), n - LimbBits)
            IN [q |-> rest.q, sticky |-> rest.sticky \/ Head(a) # 0]
  ELSE IF n > 12
       THEN LET first == DivSmall(a, 2^12)
                rest == ShiftRight(first.q, n - 12)
            IN [q |-> rest.q, sticky |-> rest.sticky \/ first.r # 0]
  ELSE [q |-> DivSmall(a, 2^n).q, sticky |-> DivSmall(a, 2^n).r # 0]

\* +0
ZeroNumber == [neg |-> FALSE, m |-> <<>>, e |-> 0]

\* The Number nearest to (-1)^neg * (n + f) * 2^e, where 0 <= f < 1 and
\* sticky tells whether f > 0: round to nearest, ties to even.
Round(neg, n, e, sticky) ==
  LET len == BitLen(n)
  IN IF n = <<>> THEN ZeroNumber
     ELSE IF len <= Precision
          THEN [neg |-> neg, m |-> ShiftLeft(n, Precision - len),
                e |-> e - (Precision - len)]
          ELSE LET kept == ShiftRight(n, len - Precision - 1)
                   guard == Head(kept.q) % 2
                   down == DivSmall(kept.q, 2).q
                   up == /\ guard = 1
                         /\ kept.sticky \/ sticky \/ Head(down) % 2 = 1
                   rounded == IF up THEN Add(down, <<1>>) ELSE down
               IN IF BitLen(rounded) > Precision
                  THEN [neg |-> neg, m |-> DivSmall(rounded, 2).q,
                        e |-> e + (len - Precision) + 1]
                  ELSE [neg |-> neg, m |-> rounded, e |-> e + (len - Precision)]

\* The Number of value n, a natural number.
NumberOf(n) == Round(FALSE, BigOf(n), 0, FALSE)

\* a / b for Numbers of natural value a and positive natural value b (an
\* image dimension, below 2^12): 4 limbs of quotient digits beyond the point.
Quotient(a, b) ==
  LET d == DivRem(<<0, 0, 0, 0>> \o BigOf(a), b)
  IN Round(FALSE, Strip(d.q), -(4 * LimbBits), d.r # 0)

\* x < y for positive Numbers.
Less(x, y) == x.e < y.e \/ (x.e = y.e /\ Cmp(x.m, y.m) < 0)

\* Math.min(x, y) for positive Numbers.
Min(x, y) == IF Less(y, x) THEN y ELSE x

\* k * x for a Number of natural value k (an image dimension, below 2^12).
Times(k, x) == Round(x.neg, MulSmall(x.m, k), x.e, FALSE)

\* s - x for a Number of natural value s and a Number x >= 0 below 2^52.
Minus(s, x) ==
  IF x.m = <<>> THEN NumberOf(s)
  ELSE LET a == ShiftLeft(BigOf(s), -x.e)
       IN IF Cmp(a, x.m) >= 0 THEN Round(FALSE, Sub(a, x.m), x.e, FALSE)
          ELSE Round(TRUE, Sub(x.m, a), x.e, FALSE)

\* x / 2
Halve(x) == IF x.m = <<>> THEN x ELSE [x EXCEPT !.e = @ - 1]

\* ----------------------------------------------------------------- canvas
\* Mutant of Scale: the image is scaled to cover the canvas.
ScaleToCover(img, size) ==
  LET byWidth == Quotient(size, img.width)
      byHeight == Quotient(size, img.height)
  IN IF Less(byWidth, byHeight) THEN byHeight ELSE byWidth

\* Math.min(size / img.width, size / img.height)
Scale(img, size) ==
  Min(Quotient(size, img.width), Quotient(size, img.height))

\* Mutant of Canvas: the canvas keeps the default height of a canvas element.
CanvasOfDefaultHeight(img, size) ==
  LET scale == Scale(img, size)
      scaledWidth == Times(img.width, scale)
      scaledHeight == Times(img.height, scale)
  IN [width |-> size, height |-> 150,
      x |-> Halve(Minus(size, scaledWidth)),
      y |-> Halve(Minus(size, scaledHeight)),
      scaledWidth |-> scaledWidth, scaledHeight |-> scaledHeight]

\* The canvas of one (image, size) pair: its width and height, and the
\* rectangle ctx.drawImage(img, x, y, scaledWidth, scaledHeight) draws into.
Canvas(img, size) ==
  LET scale == Scale(img, size)
      scaledWidth == Times(img.width, scale)
      scaledHeight == Times(img.height, scale)
  IN [width |-> size, height |-> size,
      x |-> Halve(Minus(size, scaledWidth)),
      y |-> Halve(Minus(size, scaledHeight)),
      scaledWidth |-> scaledWidth, scaledHeight |-> scaledHeight]

\* ------------------------------------------------------------- run state
\* new Image(): no width and no height before the load.
NewImage == [width |-> 0, height |-> 0]

\* No canvas was made yet for the file at hand.
NoCanvas == [width |-> 0, height |-> 0, x |-> ZeroNumber, y |-> ZeroNumber,
             scaledWidth |-> ZeroNumber, scaledHeight |-> ZeroNumber]

\* The locals of processImages when no call is in flight.
IdleRun == [pc |-> "idle", files |-> <<>>, sizeArray |-> <<>>,
            newProcessedIcons |-> <<>>, totalOperations |-> 0,
            completedOperations |-> 0, fileIdx |-> 0, sizeIdx |-> 0,
            imageUrl |-> 0, img |-> NewImage, canvas |-> NoCanvas]

\* A percentage num/den as a reduced fraction.
RECURSIVE Gcd(_, _)
Gcd(a, b) == IF b = 0 THEN a ELSE Gcd(b, a % b)

Fraction(num, den) ==
  LET g == Gcd(num, den) IN [num |-> num \div g, den |-> den \div g]

Zero == Fraction(0, 1)

\* Mutant of Percent: the pair being started is counted as completed.
PercentOfStarted(completedOperations, totalOperations) ==
  Fraction((completedOperations + 1) * 100, totalOperations)

\* (completedOperations / totalOperations) * 100
Percent(completedOperations, totalOperations) ==
  Fraction(completedOperations * 100, totalOperations)

\* URL.createObjectURL: a URL never handed out before.
CreateObjectURL(m, kind) ==
  [m EXCEPT !.urls = Append(@, [kind |-> kind, live |-> TRUE, revoked |-> 0])]

\* URL.revokeObjectURL(u); revoked counts the calls made for u.
RevokeObjectURL(table, u) ==
  [table EXCEPT ![u].live = FALSE, ![u].revoked = @ + 1]

\* The state a continuation of processImages reads and writes, as one record.
Machine == [files |-> files, sizes |-> sizes, processedIcons |-> processedIcons,
            isProcessing |-> isProcessing, progress |-> progress,
            toast |-> toast, urls |-> urls, run |-> run]

Names(icons) == [i \in 1..Len(icons) |-> icons[i].filename]

\* The step that takes the state to m.  The history variables record each run
\* that ends with "Processing complete!" and the list shown when a run starts.
Becomes(m) ==
  /\ files' = m.files
  /\ sizes' = m.sizes
  /\ processedIcons' = m.processedIcons
  /\ isProcessing' = m.isProcessing
  /\ progress' = m.progress
  /\ toast' = m.toast
  /\ urls' = m.urls
  /\ run' = m.run
  /\ successes' =
       IF run.pc # "idle" /\ m.run.pc = "idle" /\ m.toast = "Processing complete!"
       THEN Append(successes, [files |-> run.files, sizeArray |-> run.sizeArray,
                               filenames |-> Names(m.processedIcons)])
       ELSE successes
  /\ shownAtStart' =
       IF m.run.pc = "idle" THEN <<>>
       ELSE IF run.pc = "idle" THEN processedIcons
       ELSE shownAtStart
  /\ UNCHANGED zipVars
  /\ UNCHANGED toolVars

\* ---------------------------------------------------------- processImages
\* Mutant of NoFiles: the check is on the wrong side of zero.
NoFilesNever(fs) == Len(fs) < 0

\* if (files.length === 0)
NoFiles(fs) == Len(fs) = 0

\* Mutant of NoSizes: the check is on the wrong side of zero.
NoSizesNever(sizeArray) == Len(sizeArray) < 0

\* if (sizeArray.length === 0)
NoSizes(sizeArray) == Len(sizeArray) = 0

\* canvas.toBlob(..., "image/png"): the PNG of the canvas, of its width and
\* height, showing what was drawn.  The blob is taken as non-null, as
\* resolve(blob!) asserts: sizes stay within what a canvas can hold.
Blob(canvas) ==
  [type |-> "image/png", width |-> canvas.width, height |-> canvas.height,
   drawn |-> [x |-> canvas.x, y |-> canvas.y, width |-> canvas.scaledWidth,
              height |-> canvas.scaledHeight]]

\* Mutant of Icon: originalName holds the base name instead of file.name.
IconOfBaseName(file, size, blob, url) ==
  [id |-> IconId(file.name, size), originalName |-> BaseName(file.name),
   size |-> size, blob |-> blob, url |-> url,
   filename |-> Filename(file.name, size)]

\* The ProcessedIcon pushed for (file, size) with object URL number url.
Icon(file, size, blob, url) ==
  [id |-> IconId(file.name, size), originalName |-> file.name, size |-> size,
   blob |-> blob, url |-> url, filename |-> Filename(file.name, size)]

\* After the loop over files: setProcessedIcons(newProcessedIcons), the
\* "Processing complete!" toast, and finally setIsProcessing(false).
Complete(m) ==
  [m EXCEPT !.processedIcons = m.run.newProcessedIcons,
            !.toast = "Processing complete!",
            !.isProcessing = FALSE,
            !.run = IdleRun]

\* Mutant of Fail: the icons made before the failure are shown.
FailKeepsPartial(m) ==
  [m EXCEPT !.processedIcons = m.run.newProcessedIcons,
            !.toast = "Processing failed",
            !.isProcessing = FALSE,
            !.run = IdleRun]

\* Mutant of Fail: no finally block, isProcessing stays true.
FailStaysBusy(m) ==
  [m EXCEPT !.toast = "Processing failed",
            !.run = IdleRun]

\* catch: the "Processing failed" toast; finally setIsProcessing(false).
Fail(m) ==
  [m EXCEPT !.toast = "Processing failed",
            !.isProcessing = FALSE,
            !.run = IdleRun]

\* Mutant of NextFile: the size text is parsed again for every file.
NextFileParsesAgain(m) ==
  IF m.run.fileIdx < Len(m.run.files)
  THEN LET c == CreateObjectURL(m, "image")
       IN [c EXCEPT !.run.fileIdx = @ + 1,
                    !.run.sizeIdx = 0,
                    !.run.sizeArray = ParseSizes(m.sizes),
                    !.run.imageUrl = Len(c.urls),
                    !.run.img = NewImage,
                    !.run.canvas = NoCanvas,
                    !.run.pc = "decoding"]
  ELSE Complete(m)

\* for (const file of files): the next file gets an Image and an object URL
\* and the call suspends on its decode; after the last file the run completes.
NextFile(m) ==
  IF m.run.fileIdx < Len(m.run.files)
  THEN LET c == CreateObjectURL(m, "image")
       IN [c EXCEPT !.run.fileIdx = @ + 1,
                    !.run.sizeIdx = 0,
                    !.run.imageUrl = Len(c.urls),
                    !.run.img = NewImage,
                    !.run.canvas = NoCanvas,
                    !.run.pc = "decoding"]
  ELSE Complete(m)

\* for (const size of sizeArray): a canvas is made for the next size, the
\* image is drawn and the call suspends on canvas.toBlob; after the last size
\* URL.revokeObjectURL(imageUrl) and the loop over files goes on.
NextSize(m) ==
  IF m.run.sizeIdx < Len(m.run.sizeArray)
  THEN [m EXCEPT !.run.sizeIdx = @ + 1,
                 !.run.canvas = Canvas(m.run.img,
                                       m.run.sizeArray[m.run.sizeIdx + 1]),
                 !.run.pc = "encoding"]
  ELSE NextFile([m EXCEPT !.urls = RevokeObjectURL(@, m.run.imageUrl)])

\* Mutant of PairDone: an icon whose id is already in the list is not pushed.
PairDoneUnique(m) ==
  LET c == CreateObjectURL(m, "icon")
      file == m.run.files[m.run.fileIdx]
      size == m.run.sizeArray[m.run.sizeIdx]
      done == m.run.completedOperations + 1
      icon == Icon(file, size, Blob(m.run.canvas), Len(c.urls))
      seen == \E i \in DOMAIN m.run.newProcessedIcons :
                m.run.newProcessedIcons[i].id = icon.id
  IN [c EXCEPT !.run.newProcessedIcons = IF seen THEN @ ELSE Append(@, icon),
               !.run.completedOperations = done,
               !.progress = Percent(done, m.run.totalOperations)]

\* Mutant of PairDone: unshift in place of push, the icon goes to the front.
PairDoneInFront(m) ==
  LET c == CreateObjectURL(m, "icon")
      file == m.run.files[m.run.fileIdx]
      size == m.run.sizeArray[m.run.sizeIdx]
      done == m.run.completedOperations + 1
      icon == Icon(file, size, Blob(m.run.canvas), Len(c.urls))
  IN [c EXCEPT !.run.newProcessedIcons = <<icon>> \o @,
               !.run.completedOperations = done,
               !.progress = Percent(done, m.run.totalOperations)]

\* The continuation after the blob of (file, size) arrived: the blob gets an
\* object URL, the icon is pushed, completedOperations++ and setProgress.
PairDone(m) ==
  LET c == CreateObjectURL(m, "icon")
      file == m.run.files[m.run.fileIdx]
      size == m.run.sizeArray[m.run.sizeIdx]
      done == m.run.completedOperations + 1
      icon == Icon(file, size, Blob(m.run.canvas), Len(c.urls))
  IN [c EXCEPT !.run.newProcessedIcons = Append(@, icon),
               !.run.completedOperations = done,
               !.progress = Percent(done, m.run.totalOperations)]

\* processImages up to its first await (or to its return).
Start(m) ==
  LET sizeArray == ParseSizes(m.sizes)
  IN IF NoFiles(m.files) THEN [m EXCEPT !.toast = "No files selected"]
     ELSE IF NoSizes(sizeArray) THEN [m EXCEPT !.toast = "Invalid sizes"]
     ELSE NextFile([m EXCEPT !.isProcessing = TRUE,
                             !.progress = Zero,
                             !.run = [IdleRun EXCEPT
                                        !.files = m.files,
                                        !.sizeArray = sizeArray,
                                        !.totalOperations =
                                          Len(m.files) * Len(sizeArray)]])

\* The object URLs a run over fs and sizeArray creates: one per file and one
\* per (file, size) pair.
UrlsNeeded(fs, sizeArray) == Len(fs) * (1 + Len(sizeArray))

\* A call of processImages; a run starts only within the bound on URLs.
processImages ==
  /\ \/ Start(Machine).run.pc = "idle"
     \/ Len(urls) + UrlsNeeded(files, ParseSizes(sizes)) <= MaxUrls
  /\ Becomes(Start(Machine))

\* Mutant of GenerateDisabled: disabled={files.length === 0}.
GenerateDisabledWithoutFiles == Len(files) = 0

\* disabled={isProcessing || files.length === 0}
GenerateDisabled == isProcessing \/ Len(files) = 0

\* The Generate Icons button, when it is not disabled.
GenerateIcons ==
  /\ ~GenerateDisabled
  /\ processImages

\* The image decoded from file, with its width and height.
Loaded(m, file) ==
  [m EXCEPT !.run.img = [width |-> file.width, height |-> file.height]]

\* img.onload resolves the awaited promise: the loop over sizes starts.
ImageLoaded ==
  /\ run.pc = "decoding"
  /\ run.files[run.fileIdx].decodes
  /\ Becomes(NextSize(Loaded(Machine, run.files[run.fileIdx])))

\* img.onerror rejects the awaited promise: catch and finally.
ImageError ==
  /\ run.pc = "decoding"
  /\ ~run.files[run.fileIdx].decodes
  /\ Becomes(Fail(Machine))

\* The canvas.toBlob callback resolves the awaited promise.
BlobReady ==
  /\ run.pc = "encoding"
  /\ Becomes(NextSize(PairDone(Machine)))

\* ---------------------------------------------------------- other handlers
\* handleDrop: the dropped files of an accepted type are appended.
handleDrop ==
  \E batch \in Batches :
    LET droppedFiles == SelectSeq(batch, IsAccepted)
    IN /\ Len(files) + Len(droppedFiles) <= MaxFiles
       /\ IF Len(droppedFiles) > 0
          THEN files' = files \o droppedFiles /\ toast' = "Files added!"
          ELSE UNCHANGED <<files, toast>>
       /\ UNCHANGED <<sizes, processedIcons, isProcessing, progress, urls, run,
                      successes, shownAtStart>>
       /\ UNCHANGED zipVars
       /\ UNCHANGED toolVars

\* handleFileSelect: the selected files of an accepted type are appended.
handleFileSelect ==
  \E batch \in Batches :
    LET selectedFiles == SelectSeq(batch, IsAccepted)
    IN /\ Len(files) + Len(selectedFiles) <= MaxFiles
       /\ files' = files \o selectedFiles
       /\ toast' = "Files selected!"
       /\ UNCHANGED <<sizes, processedIcons, isProcessing, progress, urls, run,
                      successes, shownAtStart>>
       /\ UNCHANGED zipVars
       /\ UNCHANGED toolVars

\* onChange={(e) => setSizes(e.target.value)}
setSizes ==
  \E text \in SizeTexts :
    /\ sizes' = text
    /\ UNCHANGED <<files, processedIcons, isProcessing, progress, toast, urls,
                   run, successes, shownAtStart>>
    /\ UNCHANGED zipVars
    /\ UNCHANGED toolVars

RECURSIVE RevokeAll(_, _)
RevokeAll(table, icons) ==
  IF icons = <<>> THEN table
  ELSE RevokeAll(RevokeObjectURL(table, Head(icons).url), Tail(icons))

\* Mutant of clearAll: the object URLs of the results are not revoked.
clearAllKeepsUrls ==
  /\ processedIcons' = <<>>
  /\ files' = <<>>
  /\ progress' = Zero
  /\ UNCHANGED <<sizes, isProcessing, toast, urls, run, successes, shownAtStart>>
  /\ UNCHANGED zipVars
  /\ UNCHANGED toolVars

\* Mutant of clearAll: the run in flight is abandoned as well.
clearAllEndsRun ==
  /\ urls' = RevokeAll(urls, processedIcons)
  /\ processedIcons' = <<>>
  /\ files' = <<>>
  /\ progress' = Zero
  /\ run' = IdleRun
  /\ isProcessing' = FALSE
  /\ UNCHANGED <<sizes, toast, successes, shownAtStart>>
  /\ UNCHANGED zipVars
  /\ UNCHANGED toolVars

\* Mutant of clearAll: setProcessedIcons([]) is left out.
clearAllKeepsList ==
  /\ urls' = RevokeAll(urls, processedIcons)
  /\ files' = <<>>
  /\ progress' = Zero
  /\ UNCHANGED <<sizes, processedIcons, isProcessing, toast, run, successes,
                 shownAtStart>>
  /\ UNCHANGED zipVars
  /\ UNCHANGED toolVars

\* clearAll
clearAll ==
  /\ urls' = RevokeAll(urls, processedIcons)
  /\ processedIcons' = <<>>
  /\ files' = <<>>
  /\ progress' = Zero
  /\ UNCHANGED <<sizes, isProcessing, toast, run, successes, shownAtStart>>
  /\ UNCHANGED zipVars
  /\ UNCHANGED toolVars

\* The Clear All button is rendered with the results, when
\* processedIcons.length > 0.
ClearAll ==
  /\ Len(processedIcons) > 0
  /\ clearAll

\* downloadIcon(icon), the Download button of an entry of the result list: a
\* link to icon.url is clicked.
downloadIcon ==
  \E i \in DOMAIN processedIcons :
    /\ Len(downloads) < MaxExports
    /\ downloads' = Append(downloads, [download |-> processedIcons[i].filename,
                                       href |-> processedIcons[i].url])
    /\ UNCHANGED <<files, sizes, processedIcons, isProcessing, progress, toast,
                   urls, run, successes, shownAtStart, zips, unhandled, zipCalls>>
    /\ UNCHANGED toolVars

\* ------------------------------------------------------- downloadAllAsZip
\* Mutant of NothingToExport: the check is on the wrong side of zero.
NothingToExportNever(icons) == Len(icons) < 0

\* if (processedIcons.length === 0) return
NothingToExport(icons) == Len(icons) = 0

\* Mutant of ZipFile: a name already present keeps its data, first write wins.
ZipFileKeepsFirst(entries, name, data) ==
  IF \E i \in DOMAIN entries : entries[i].name = name
  THEN entries
  ELSE Append(entries, [name |-> name, data |-> data])

\* zip.file(name, data) of JSZip: the archive holds one entry per name, and a
\* name already present keeps its place and gets the new data.
ZipFile(entries, name, data) ==
  IF \E i \in DOMAIN entries : entries[i].name = name
  THEN [i \in DOMAIN entries |->
          IF entries[i].name = name THEN [name |-> name, data |-> data]
          ELSE entries[i]]
  ELSE Append(entries, [name |-> name, data |-> data])

\* Mutant of ZipFiles: the loop leaves out the first icon.
RECURSIVE ZipFilesButFirst(_, _)
ZipFilesButFirst(entries, icons) ==
  IF icons = <<>> THEN entries
  ELSE IF entries = <<>> /\ Len(icons) > 1
       THEN ZipFilesButFirst(ZipFile(entries, icons[2].filename, icons[2].blob),
                             Tail(Tail(icons)))
       ELSE ZipFilesButFirst(ZipFile(entries, Head(icons).filename, Head(icons).blob),
                             Tail(icons))

\* for (const icon of processedIcons) zip.file(icon.filename, icon.blob)
RECURSIVE ZipFiles(_, _)
ZipFiles(entries, icons) ==
  IF icons = <<>> THEN entries
  ELSE ZipFiles(ZipFile(entries, Head(icons).filename, Head(icons).blob),
                Tail(icons))

\* link.download of the archive.
ZipName == "chrome-extension-icons.zip"

\* seq without its element number i.
Without(seq, i) == SubSeq(seq, 1, i - 1) \o SubSeq(seq, i + 1, Len(seq))

\* No export was requested yet.
NoExport ==
  /\ zips = <<>>
  /\ downloads = <<>>
  /\ unhandled = 0
  /\ zipCalls = 0

\* downloadAllAsZip up to its await: nothing for an empty result list, else
\* the JSZip object gets the icons of this render and generateAsync starts.
downloadAllAsZip ==
  /\ zipCalls < MaxExports
  /\ zipCalls' = zipCalls + 1
  /\ zips' = IF NothingToExport(processedIcons) THEN zips
             ELSE Append(zips, [icons |-> processedIcons,
                                entries |-> ZipFiles(<<>>, processedIcons)])
  /\ UNCHANGED <<files, sizes, processedIcons, isProcessing, progress, toast,
                 urls, run, successes, shownAtStart, downloads, unhandled>>
  /\ UNCHANGED toolVars

\* The Download All (ZIP) button is rendered with the results, when
\* processedIcons.length > 0.
DownloadAll ==
  /\ Len(processedIcons) > 0
  /\ downloadAllAsZip

\* generateAsync resolves: the archive gets an object URL, the link is
\* clicked, the URL is revoked and the "ZIP downloaded!" toast is raised.
ZipGenerated ==
  \E i \in DOMAIN zips :
    LET c == CreateObjectURL(Machine, "zip")
        zipUrl == Len(c.urls)
    IN /\ downloads' = Append(downloads, [download |-> ZipName, href |-> zipUrl,
                                          entries |-> zips[i].entries])
       /\ urls' = RevokeObjectURL(c.urls, zipUrl)
       /\ toast' = "ZIP downloaded!"
       /\ zips' = Without(zips, i)
       /\ UNCHANGED <<files, sizes, processedIcons, isProcessing, progress, run,
                      successes, shownAtStart, unhandled, zipCalls>>
       /\ UNCHANGED toolVars

\* generateAsync rejects: downloadAllAsZip has no catch, so the promise it
\* returned to the click handler is rejected and nothing handles it.
ZipFailed ==
  \E i \in DOMAIN zips :
    /\ zips' = Without(zips, i)
    /\ unhandled' = unhandled + 1
    /\ UNCHANGED <<files, sizes, processedIcons, isProcessing, progress, toast,
                   urls, run, successes, shownAtStart, downloads, zipCalls>>
    /\ UNCHANGED toolVars

\* ------------------------------------------------------ ExtensionPackager
\* The extension packager (src/unnamed/part_002, ExtensionPackager).  A file
\* of a dropped folder has a name, a path, and a content that is a string (a
\* sequence of lines, each line the set of the searched pieces of text it
\* contains) or an ArrayBuffer; json is what JSON.parse makes of the content
\* of a manifest.json, when it parses.
ManifestJsonName == <<"m","a","n","i","f","e","s","t",".","j","s","o","n">>
PopupJsName == <<"p",".","j","s">>
BgJsName == <<"b","g",".","j","s">>
IconFileName == <<"i","c","o","n",".","p","n","g">>

\* An optional field of the manifest.
Absent == [defined |-> FALSE, value |-> <<>>]
Present(v) == [defined |-> TRUE, value |-> v]

\* A manifest with no field set (name, version: "" when absent;
\* manifest_version: 0 when absent).
EmptyManifest ==
  [name |-> <<>>, version |-> <<>>, manifest_version |-> 0, icons |-> Absent,
   background |-> Absent, content_scripts |-> Absent, permissions |-> Absent]

\* s ends with suffix.
EndsWith(s, suffix) ==
  /\ Len(s) >= Len(suffix)
  /\ SubSeq(s, Len(s) - Len(suffix) + 1, Len(s)) = suffix

\* The file entry.name of the dropped folder "e", as processEntry pushes it.
TextFile(name, lines) ==
  [name |-> name, path |-> <<"e", "/">> \o name, text |-> TRUE, lines |-> lines,
   parses |-> FALSE, json |-> EmptyManifest]
BinaryFile(name) ==
  [name |-> name, path |-> <<"e", "/">> \o name, text |-> FALSE, lines |-> <<>>,
   parses |-> FALSE, json |-> EmptyManifest]
ManifestFile(json) ==
  [name |-> ManifestJsonName, path |-> <<"e", "/">> \o ManifestJsonName,
   text |-> TRUE, lines |-> <<{}>>, parses |-> TRUE, json |-> json]
BrokenManifestFile ==
  [name |-> ManifestJsonName, path |-> <<"e", "/">> \o ManifestJsonName,
   text |-> TRUE, lines |-> <<{}>>, parses |-> FALSE, json |-> EmptyManifest]

\* The folders a drop can bring.
GoodManifest ==
  [EmptyManifest EXCEPT !.name = <<"e","x","t">>, !.version = <<"1",".","0">>,
                        !.manifest_version = 3,
                        !.icons = Present(<<IconFileName>>)]
\* "my ext" without a version and without icons.
NoVersionManifest ==
  [EmptyManifest EXCEPT !.name = <<"m","y"," ","e","x","t">>,
                        !.manifest_version = 3]
\* manifest_version 4, a background script that is not in the folder, and
\* the permissions tabs and storage.
PermsManifest ==
  [EmptyManifest EXCEPT !.name = <<"p">>, !.version = <<"2">>,
                        !.manifest_version = 4,
                        !.background = Present(<<BgJsName>>),
                        !.content_scripts = Present(<< <<PopupJsName>> >>),
                        !.permissions = Present(<<"tabs", "storage">>)]

GoodFolder == <<ManifestFile(GoodManifest), BinaryFile(IconFileName)>>
NoVersionFolder ==
  <<ManifestFile(NoVersionManifest),
    TextFile(PopupJsName, <<{"console.log"}, {"Promise", "addEventListener"}>>)>>
NoManifestFolder == <<TextFile(PopupJsName, <<{"chrome.tabs"}>>)>>
BadJsonFolder == <<BrokenManifestFile, BinaryFile(IconFileName)>>
PermsFolder ==
  <<ManifestFile(PermsManifest), TextFile(PopupJsName, <<{"chrome.tabs"}>>),
    BinaryFile(IconFileName)>>
Folders == {GoodFolder, NoVersionFolder, NoManifestFolder, BadJsonFolder,
            PermsFolder}

\* A ValidationResult.
Result(type, category, message, detail) ==
  [type |-> type, category |-> category, message |-> message, detail |-> detail]

\* files.find((f) => f.path === path || f.name === path) finds a file.
Found(fs, path) == \E i \in DOMAIN fs : fs[i].path = path \/ fs[i].name = path

\* One error per path of paths that no file of fs has.
NotFound(fs, paths, category, message) ==
  LET missing == SelectSeq(paths, LAMBDA path : ~Found(fs, path))
  IN [i \in 1..Len(missing) |-> Result("error", category, message, missing[i])]

\* validateManifest: what it pushes for the manifest held (<<>> for null).
ValidateManifest(fs, manifest) ==
  IF manifest = <<>>
  THEN <<Result("error", "Manifest", "manifest.json not found", <<>>)>>
  ELSE LET m == manifest[1]
           missing ==
             (IF m.name = <<>> THEN <<"name">> ELSE <<>>)
               \o (IF m.version = <<>> THEN <<"version">> ELSE <<>>)
               \o (IF m.manifest_version = 0 THEN <<"manifest_version">> ELSE <<>>)
       IN [i \in 1..Len(missing) |->
             Result("error", "Manifest", "Missing required field", <<missing[i]>>)]
          \o (IF m.manifest_version # 0 /\ m.manifest_version \notin {2, 3}
              THEN <<Result("error", "Manifest", "Invalid manifest_version", <<>>)>>
              ELSE <<>>)
          \o (IF m.icons.defined
              THEN NotFound(fs, m.icons.value, "Icons", "Icon file not found")
              ELSE <<Result("warning", "Icons", "No icons specified in manifest",
                            <<>>)>>)

RECURSIVE Flatten(_)
Flatten(seqs) == IF seqs = <<>> THEN <<>> ELSE Head(seqs) \o Flatten(Tail(seqs))

\* validateFileReferences
ValidateFileReferences(fs, manifest) ==
  IF manifest = <<>> THEN <<>>
  ELSE LET m == manifest[1]
       IN (IF m.background.defined
           THEN NotFound(fs, m.background.value, "Files",
                         "Background script not found")
           ELSE <<>>)
          \o (IF m.content_scripts.defined
              THEN NotFound(fs, Flatten(m.content_scripts.value), "Files",
                            "Content script not found")
              ELSE <<>>)

DangerousPermissions ==
  {"<all_urls>", "http://*/*", "https://*/*", "tabs", "history", "bookmarks"}

\* content.includes(piece) of a string content.
Includes(file, piece) == \E l \in DOMAIN file.lines : piece \in file.lines[l]

\* The pieces of text "chrome.<permission>" and "browser.<permission>".
ChromeUse(permission) == IF permission = "tabs" THEN "chrome.tabs"
                         ELSE "chrome.storage"
BrowserUse(permission) == IF permission = "tabs" THEN "browser.tabs"
                          ELSE "browser.storage"

\* The predicate of files.some(...) holds of the file.
UsedIn(file, permission) ==
  /\ file.text
  /\ Includes(file, ChromeUse(permission)) \/ Includes(file, BrowserUse(permission))

\* files.some(...) comes to a file whose content is an ArrayBuffer before it
\* finds a use: file.content.includes is not a function, a TypeError.
SomeThrows(fs, permission) ==
  \E i \in DOMAIN fs :
    /\ ~fs[i].text
    /\ \A j \in 1..(i - 1) : ~UsedIn(fs[j], permission)

IsUsed(fs, permission) == \E i \in DOMAIN fs : UsedIn(fs[i], permission)

\* validatePermissions: whether it throws, and what it pushes when it does not.
ValidatePermissions(fs, manifest) ==
  IF manifest = <<>> \/ ~manifest[1].permissions.defined
  THEN [throws |-> FALSE, results |-> <<>>]
  ELSE LET permissions == manifest[1].permissions.value
           dangerous == SelectSeq(permissions,
                                  LAMBDA q : q \in DangerousPermissions)
           unusedPermissions ==
             SelectSeq(permissions,
                       LAMBDA q : ~IsUsed(fs, q) /\ q \notin {"storage", "activeTab"})
       IN [throws |-> \E i \in DOMAIN permissions : SomeThrows(fs, permissions[i]),
           results |->
             [i \in 1..Len(dangerous) |->
                Result("warning", "Security", "Potentially dangerous permission",
                       <<dangerous[i]>>)]
             \o (IF Len(unusedPermissions) > 0
                 THEN <<Result("warning", "Permissions",
                               "Potentially unused permissions", unusedPermissions)>>
                 ELSE <<>>)]

\* performStaticAnalysis of one .js file.
AnalyseFile(file) ==
  LET debug == SelectSeq([l \in 1..Len(file.lines) |-> l],
                         LAMBDA l : file.lines[l]
                                      \cap {"console.log", "alert(", "debugger"} # {})
  IN [i \in 1..Len(debug) |->
        Result("warning", "Code Quality", "Debug statement found",
               file.path \o <<":">> \o ToDigits(debug[i]))]
     \o (IF Includes(file, "Promise") /\ ~Includes(file, ".catch")
         THEN <<Result("warning", "Code Quality", "Potential unhandled promise",
                       file.path)>>
         ELSE <<>>)
     \o (IF Includes(file, "addEventListener")
            /\ ~Includes(file, "removeEventListener")
         THEN <<Result("info", "Code Quality",
                       "Consider cleaning up event listeners", file.path)>>
         ELSE <<>>)

\* performStaticAnalysis
PerformStaticAnalysis(fs) ==
  LET jsFiles == SelectSeq(fs, LAMBDA f : EndsWith(f.name, <<".","j","s">>) /\ f.text)
  IN Flatten([i \in 1..Len(jsFiles) |-> AnalyseFile(jsFiles[i])])

\* validationResults.filter((r) => r.type === "error").length
ErrorCount(results) == Len(SelectSeq(results, LAMBDA r : r.type = "error"))

\* The packager before any folder is dropped.  zip holds the archive of a
\* packageExtension call suspended on generateAsync, link the last link
\* clicked; validatedFor is history: the file set that validationResults was
\* computed for.
NewPackager ==
  [files |-> <<>>, manifest |-> <<>>, validationResults |-> <<>>,
   isValidating |-> FALSE, isPackaging |-> FALSE, progress |-> Zero,
   toast |-> "", zip |-> <<>>, link |-> <<>>, validatedFor |-> <<>>]

\* A step of the packager: the page and the debug console stay as they are,
\* but for the object URLs, which the step gives.
PackagerBecomes(pk, table) ==
  /\ packager' = pk
  /\ urls' = table
  /\ UNCHANGED <<files, sizes, processedIcons, isProcessing, progress, toast,
                 run, successes, shownAtStart>>
  /\ UNCHANGED zipVars
  /\ UNCHANGED <<debugConsole, consoleWrappers, consoleTrace>>

\* processManifest: the first manifest.json of the files, when it parses,
\* becomes the manifest; otherwise the manifest held stays.
ProcessManifest(pk, extensionFiles) ==
  LET found == SelectSeq(extensionFiles, LAMBDA f : f.name = ManifestJsonName)
  IN IF found # <<>> /\ Head(found).text /\ Head(found).parses
     THEN [pk EXCEPT !.manifest = <<Head(found).json>>]
     ELSE pk

\* handleDrop of the packager, once the entries of the dropped folder are
\* read: a drop that brings no file changes nothing.
HandleFolderDrop ==
  \E extensionFiles \in Folders :
    PackagerBecomes(
      [ProcessManifest([packager EXCEPT !.files = extensionFiles], extensionFiles)
         EXCEPT !.toast = "Extension loaded!"],
      urls)

\* validateExtension: the four validators run in a row with nothing awaited
\* but themselves; a validator that throws leaves validationResults as it was.
ValidateExtension(pk) ==
  IF pk.files = <<>> THEN [pk EXCEPT !.toast = "No files loaded"]
  ELSE LET permissions == ValidatePermissions(pk.files, pk.manifest)
       IN IF permissions.throws
          THEN [pk EXCEPT !.progress = Fraction(50, 1),
                          !.toast = "Validation failed",
                          !.isValidating = FALSE]
          ELSE [pk EXCEPT !.validationResults =
                            ValidateManifest(pk.files, pk.manifest)
                              \o ValidateFileReferences(pk.files, pk.manifest)
                              \o permissions.results
                              \o PerformStaticAnalysis(pk.files),
                          !.progress = Fraction(100, 1),
                          !.toast = "Validation complete!",
                          !.isValidating = FALSE,
                          !.validatedFor = <<pk.files>>]

\* The Validate button: rendered when files are loaded, disabled={isValidating}.
Validate ==
  /\ packager.files # <<>>
  /\ ~packager.isValidating
  /\ PackagerBecomes(ValidateExtension(packager), urls)

\* replace(/\s+/g, "_")
RECURSIVE Underscored(_)
Underscored(s) ==
  IF s = <<>> THEN <<>>
  ELSE IF IsWhiteSpace(Head(s)) THEN <<"_">> \o Underscored(TrimStart(Tail(s)))
  ELSE <<Head(s)>> \o Underscored(Tail(s))

\* link.download of the package.
PackageName(m) ==
  (IF m.name = <<>> THEN <<"e","x","t","e","n","s","i","o","n">>
   ELSE Underscored(m.name))
    \o <<"_">>
    \o (IF m.version = <<>> THEN <<"1",".","0">> ELSE m.version)
    \o <<".","z","i","p">>

\* for (const file of files) zip.file(file.path, file.content)
RECURSIVE PackFiles(_, _)
PackFiles(entries, fs) ==
  IF fs = <<>> THEN entries
  ELSE PackFiles(ZipFile(entries, Head(fs).path,
                         [text |-> Head(fs).text, lines |-> Head(fs).lines]),
                 Tail(fs))

\* if (!manifest || validationResults.filter(...).length > 0)
CannotPackage(pk) ==
  pk.manifest = <<>> \/ ErrorCount(pk.validationResults) > 0

\* packageExtension up to its await: the "Cannot package" toast, or the
\* archive of the files and the start of generateAsync.
PackageExtension(pk) ==
  IF CannotPackage(pk) THEN [pk EXCEPT !.toast = "Cannot package"]
  ELSE [pk EXCEPT !.isPackaging = TRUE,
                  !.progress = IF pk.files = <<>> THEN Zero
                               ELSE Fraction((Len(pk.files) - 1) * 100,
                                             Len(pk.files)),
                  !.zip = <<[entries |-> PackFiles(<<>>, pk.files),
                             download |-> PackageName(pk.manifest[1])]>>]

\* The Package button: rendered when files are loaded,
\* disabled={isPackaging || errorCount > 0}.
Package ==
  /\ packager.files # <<>>
  /\ ~packager.isPackaging
  /\ ErrorCount(packager.validationResults) = 0
  /\ PackagerBecomes(PackageExtension(packager), urls)

\* generateAsync resolves: the archive gets an object URL, the link is
\* clicked, the URL is revoked, "Extension packaged!", and finally.
PackageGenerated ==
  /\ packager.zip # <<>>
  /\ Len(urls) < MaxUrls
  /\ LET c == CreateObjectURL(Machine, "package")
     IN PackagerBecomes([packager EXCEPT !.link = <<[download |-> packager.zip[1].download,
                                                     href |-> Len(c.urls),
                                                     entries |-> packager.zip[1].entries]>>,
                                         !.toast = "Extension packaged!",
                                         !.isPackaging = FALSE,
                                         !.progress = Zero,
                                         !.zip = <<>>],
                        RevokeObjectURL(c.urls, Len(c.urls)))

\* generateAsync rejects: catch raises "Packaging failed", and finally.
PackageFailed ==
  /\ packager.zip # <<>>
  /\ PackagerBecomes([packager EXCEPT !.toast = "Packaging failed",
                                      !.isPackaging = FALSE,
                                      !.progress = Zero,
                                      !.zip = <<>>],
                     urls)

\* ----------------------------------------------------------- DebugConsole
\* The debug console (src/components/mini-tools/debug-console.tsx).  The
\* command field and the commands are sequences of characters; the message of
\* an entry is a sequence of pieces of text.  The filter of the view, the
\* timestamp and the stack of an entry are left out: no handler reads them.

\* slice(-1000) of the entries and slice(-50) of the command history.
KeepEntries == 1000
KeepCommands == 50

\* The commands typed or clicked: " ", "1", "(", and the third of
\* CHROME_API_COMMANDS.
BlankCommand == <<" ">>
OneCommand == <<"1">>
ParenCommand == <<"(">>
StorageSetCommand == <<"c","h","r","o","m","e",".","s","t","o","r","a","g","e",".","s","y","n","c",".","s","e","t","(","{","k","e","y",":"," ","'","v","a","l","u","e","'","}",")">>
CommandTexts == {BlankCommand, OneCommand, ParenCommand, StorageSetCommand}

\* The mock Chrome API responses, in the order of the if-chain.
MockResponses ==
  <<[pattern |-> <<"c","h","r","o","m","e",".","t","a","b","s",".","q","u","e","r","y">>,
     message |-> "the tab of example.com", source |-> "chrome.tabs"],
    [pattern |-> <<"c","h","r","o","m","e",".","s","t","o","r","a","g","e",".","s","y","n","c",".","g","e","t">>,
     message |-> "the stored key", source |-> "chrome.storage"],
    [pattern |-> <<"c","h","r","o","m","e",".","s","t","o","r","a","g","e",".","s","y","n","c",".","s","e","t">>,
     message |-> "Storage updated successfully", source |-> "chrome.storage"],
    [pattern |-> <<"c","h","r","o","m","e",".","r","u","n","t","i","m","e",".","g","e","t","M","a","n","i","f","e","s","t">>,
     message |-> "the manifest of Test Extension", source |-> "chrome.runtime"],
    [pattern |-> <<"c","h","r","o","m","e",".","r","u","n","t","i","m","e",".","g","e","t","P","l","a","t","f","o","r","m","I","n","f","o">>,
     message |-> "the platform info", source |-> "chrome.runtime"],
    [pattern |-> <<"c","h","r","o","m","e",".","p","e","r","m","i","s","s","i","o","n","s",".","g","e","t","A","l","l">>,
     message |-> "the permissions", source |-> "chrome.permissions"],
    [pattern |-> <<"c","h","r","o","m","e",".","a","c","t","i","o","n",".","s","e","t","B","a","d","g","e","T","e","x","t">>,
     message |-> "Badge text updated", source |-> "chrome.action"],
    [pattern |-> <<"c","h","r","o","m","e",".","n","o","t","i","f","i","c","a","t","i","o","n","s",".","c","r","e","a","t","e">>,
     message |-> "Notification created with ID: notification_1", source |-> "chrome.notifications"]>>

\* s.includes(piece)
Contains(s, piece) ==
  \E i \in 0..(Len(s) - Len(piece)) : SubSeq(s, i + 1, i + Len(piece)) = piece

\* eval(command) of the commands of CommandTexts: "1" evaluates to 1, "("
\* throws a SyntaxError, the others are not evaluated by executeCommand.
Eval(cmd) ==
  IF cmd = OneCommand THEN [throws |-> FALSE, text |-> "1"]
  ELSE [throws |-> TRUE, text |-> "SyntaxError"]

\* Mutant of LastN: slice(0, n), the first n are kept.
FirstN(seq, n) == IF Len(seq) <= n THEN seq ELSE SubSeq(seq, 1, n)

\* seq.slice(-n)
LastN(seq, n) ==
  IF Len(seq) <= n THEN seq ELSE SubSeq(seq, Len(seq) - n + 1, Len(seq))

\* The console before any use.
NewConsole ==
  [entries |-> <<>>, command |-> <<>>, isCapturing |-> FALSE,
   commandHistory |-> <<>>, historyIndex |-> -1, toast |-> ""]

\* History of the debug console: the entries appended since the console was
\* last cleared, the commands executed, the number of console.log, warn,
\* error and info calls made by the page, whether the command field was
\* edited after the last execution or arrow key that set it, and the number
\* of steps counted against MaxCalls.
NoTrace ==
  [appended |-> <<>>, executed |-> <<>>, consoleCalls |-> 0, edited |-> FALSE,
   calls |-> 0]

\* The debug console, the window.console it wraps and its history, as one
\* record.
ConsoleMachine ==
  [dc |-> debugConsole, wrappers |-> consoleWrappers, trace |-> consoleTrace]

NewConsoleMachine == [dc |-> NewConsole, wrappers |-> 0, trace |-> NoTrace]

\* A step of the debug console: the page and the packager stay as they are.
ConsoleBecomes(c) ==
  /\ debugConsole' = c.dc
  /\ consoleWrappers' = c.wrappers
  /\ consoleTrace' = c.trace
  /\ UNCHANGED pageVars
  /\ UNCHANGED packager

\* addEntry: the entry goes to the end and the last 1000 are kept.  The id
\* (time and a random suffix in the code) is the number of the entry since
\* the console was last cleared.
AddEntry(c, level, message, source) ==
  LET entry == [id |-> Len(c.trace.appended) + 1, level |-> level,
                message |-> message, source |-> source]
  IN [c EXCEPT !.dc.entries = LastN(Append(@, entry), KeepEntries),
               !.trace.appended = Append(@, entry)]

\* The mock response of the first pattern of the if-chain the command
\* includes, or what eval gives.
Respond(c, cmd) ==
  LET hits == SelectSeq(MockResponses, LAMBDA r : Contains(cmd, r.pattern))
  IN IF hits # <<>>
     THEN AddEntry(c, "info", <<Head(hits).message>>, Head(hits).source)
     ELSE IF Eval(cmd).throws
          THEN AddEntry(c, "error", <<"Error: ", Eval(cmd).text>>, "")
          ELSE AddEntry(c, "info", <<Eval(cmd).text>>, "")

\* executeCommand
ExecuteCommand(c) ==
  IF Trim(c.dc.command) = <<>> THEN c
  ELSE LET cmd == c.dc.command
           d == [c EXCEPT !.dc.commandHistory = LastN(Append(@, cmd), KeepCommands),
                          !.dc.historyIndex = -1,
                          !.trace.executed = Append(@, cmd)]
       IN [Respond(AddEntry(d, "command", <<"> ">> \o cmd, ""), cmd)
             EXCEPT !.dc.command = <<>>, !.trace.edited = FALSE]

\* handleKeyDown for ArrowUp
ArrowUp(c) ==
  IF Len(c.dc.commandHistory) > 0
  THEN LET newIndex == IF c.dc.historyIndex = -1
                       THEN Len(c.dc.commandHistory) - 1
                       ELSE IF c.dc.historyIndex - 1 > 0
                            THEN c.dc.historyIndex - 1 ELSE 0
       IN [c EXCEPT !.dc.historyIndex = newIndex,
                    !.dc.command = c.dc.commandHistory[newIndex + 1],
                    !.trace.edited = FALSE]
  ELSE c

\* Mutant of ArrowDown: the index moves on and the command field stays.
ArrowDownKeepsField(c) ==
  IF c.dc.historyIndex >= 0
  THEN LET newIndex == c.dc.historyIndex + 1
       IN IF newIndex >= Len(c.dc.commandHistory)
          THEN [c EXCEPT !.dc.historyIndex = -1, !.dc.command = <<>>,
                         !.trace.edited = FALSE]
          ELSE [c EXCEPT !.dc.historyIndex = newIndex, !.trace.edited = FALSE]
  ELSE c

\* handleKeyDown for ArrowDown
ArrowDown(c) ==
  IF c.dc.historyIndex >= 0
  THEN LET newIndex == c.dc.historyIndex + 1
       IN IF newIndex >= Len(c.dc.commandHistory)
          THEN [c EXCEPT !.dc.historyIndex = -1, !.dc.command = <<>>,
                         !.trace.edited = FALSE]
          ELSE [c EXCEPT !.dc.historyIndex = newIndex,
                         !.dc.command = c.dc.commandHistory[newIndex + 1],
                         !.trace.edited = FALSE]
  ELSE c

\* One more step is counted against MaxCalls.
Counted(c) == [c EXCEPT !.trace.calls = @ + 1]

\* onChange of the command field, or the click on a quick command.
setCommand ==
  \E text \in CommandTexts :
    /\ text # debugConsole.command
    /\ ConsoleBecomes([ConsoleMachine EXCEPT !.dc.command = text,
                                              !.trace.edited = TRUE])

\* handleKeyDown
handleKeyDown ==
  \E key \in {"Enter", "ArrowUp", "ArrowDown"} :
    IF key = "Enter"
    THEN /\ consoleTrace.calls < MaxCalls
         /\ ConsoleBecomes(Counted(ExecuteCommand(ConsoleMachine)))
    ELSE IF key = "ArrowUp" THEN ConsoleBecomes(ArrowUp(ConsoleMachine))
    ELSE ConsoleBecomes(ArrowDown(ConsoleMachine))

\* The Execute button, disabled={!command.trim()}.
executeCommand ==
  /\ Trim(debugConsole.command) # <<>>
  /\ consoleTrace.calls < MaxCalls
  /\ ConsoleBecomes(Counted(ExecuteCommand(ConsoleMachine)))

\* clearConsole
clearConsole ==
  ConsoleBecomes([ConsoleMachine EXCEPT !.dc.entries = <<>>,
                                        !.dc.toast = "Console cleared",
                                        !.trace.appended = <<>>])

\* startCapturing: console.log, console.warn, console.error and console.info
\* are each replaced by a function that calls the one it found and addEntry.
StartCapturing(c) ==
  [AddEntry([c EXCEPT !.dc.isCapturing = TRUE, !.wrappers = @ + 1],
            "info", <<"Console capturing started">>, "debug-console")
     EXCEPT !.dc.toast = "Capturing started"]

\* stopCapturing
StopCapturing(c) ==
  [AddEntry([c EXCEPT !.dc.isCapturing = FALSE],
            "info", <<"Console capturing stopped">>, "debug-console")
     EXCEPT !.dc.toast = "Capturing stopped"]

\* onClick={isCapturing ? stopCapturing : startCapturing}
ToggleCapture ==
  /\ consoleTrace.calls < MaxCalls
  /\ ConsoleBecomes(Counted(IF debugConsole.isCapturing
                            THEN StopCapturing(ConsoleMachine)
                            ELSE StartCapturing(ConsoleMachine)))

\* A call of console[level](text) that goes through n wrappers: the innermost
\* adds its entry first.
RECURSIVE Wrapped(_, _, _, _)
Wrapped(c, n, level, text) ==
  IF n = 0 THEN c
  ELSE AddEntry(Wrapped(c, n - 1, level, text), level, <<text>>, "console")

\* Some code of the page calls console.log, console.warn, console.error or
\* console.info.
ConsoleCall ==
  \E level \in {"log", "warn", "error", "info"} :
    /\ consoleTrace.calls < MaxCalls
    /\ ConsoleBecomes(Counted(
         [Wrapped(ConsoleMachine, consoleWrappers, level, "hello")
            EXCEPT !.trace.consoleCalls = @ + 1]))

\* The packager and the debug console were not used.
ToolsUnused ==
  /\ packager = NewPackager
  /\ debugConsole = NewConsole
  /\ consoleWrappers = 0
  /\ consoleTrace = NoTrace

\* ---------------------------------------------------------- specifications
Init ==
  /\ files = <<>>
  /\ sizes = DefaultSizes
  /\ processedIcons = <<>>
  /\ isProcessing = FALSE
  /\ progress = Zero
  /\ toast = ""
  /\ urls = <<>>
  /\ run = IdleRun
  /\ successes = <<>>
  /\ shownAtStart = <<>>
  /\ NoExport
  /\ ToolsUnused

Next ==
  \/ handleDrop
  \/ handleFileSelect
  \/ setSizes
  \/ GenerateIcons
  \/ ImageLoaded
  \/ ImageError
  \/ BlobReady
  \/ ClearAll

Spec == Init /\ [][Next]_vars

\* The call of processImages in flight resumes from its await: onload,
\* onerror or the toBlob callback has fired.
Resumes ==
  /\ run.pc # "idle"
  /\ run' # run

\* The browser delivers every callback it owes: each decode ends in onload or
\* onerror and each toBlob calls back.  This is weak fairness of Resumes, with
\* its enabling condition (a call is suspended) written out.
SpecFair ==
  /\ Spec
  /\ []<>(run.pc = "idle") \/ []<><<Resumes>>_vars

\* processImages called as a function, past the button's disabled attribute,
\* when no call is in flight.
CallProcessImages ==
  /\ run.pc = "idle"
  /\ processImages

NextCall == Next \/ CallProcessImages

SpecCall == Init /\ [][NextCall]_vars

\* The characters of the size texts SpecParse enumerates.
ParseAlphabet == {"0", "2", ",", " ", "-", "a", "x"}

RECURSIVE TextsOfLen(_)
TextsOfLen(n) ==
  IF n = 0 THEN {<<>>}
  ELSE {Append(t, c) : t \in TextsOfLen(n - 1), c \in ParseAlphabet}

ParseTexts ==
  UNION {TextsOfLen(n) : n \in 0..MaxTextLen}
    \cup {DefaultSizes, SpacedSizes, MixedSizes, NonPositiveSizes, TwoSizes}

\* One run over one file, for every size text of ParseTexts.
InitParse ==
  /\ files \in {<<LogoPng>>, <<BadSvg>>}
  /\ sizes \in ParseTexts
  /\ processedIcons = <<>>
  /\ isProcessing = FALSE
  /\ progress = Zero
  /\ toast = ""
  /\ urls = <<>>
  /\ run = IdleRun
  /\ successes = <<>>
  /\ shownAtStart = <<>>
  /\ NoExport
  /\ ToolsUnused

NextParse == GenerateIcons \/ ImageLoaded \/ ImageError \/ BlobReady

SpecParse == InitParse /\ [][NextParse]_vars

\* "logo.svg": a second source of the same base name as logo.png.
LogoSvg == [name |-> <<"l","o","g","o",".","s","v","g">>, type |-> "image/svg+xml",
            decodes |-> TRUE, width |-> 100, height |-> 50]

\* The selections the behaviours of SpecZip start from.
ZipBatches == {<<LogoPng>>, <<LogoPng, LogoPng>>, <<LogoPng, LogoSvg>>,
               <<LogoPng, BadSvg>>}

\* Runs, Clear All and archive exports over a selection made beforehand.
InitZip ==
  /\ files \in ZipBatches
  /\ sizes \in {TwoSizes, RepeatedSizes}
  /\ processedIcons = <<>>
  /\ isProcessing = FALSE
  /\ progress = Zero
  /\ toast = ""
  /\ urls = <<>>
  /\ run = IdleRun
  /\ successes = <<>>
  /\ shownAtStart = <<>>
  /\ NoExport
  /\ ToolsUnused

NextZip ==
  \/ GenerateIcons
  \/ ImageLoaded
  \/ ImageError
  \/ BlobReady
  \/ ClearAll
  \/ DownloadAll
  \/ ZipGenerated
  \/ ZipFailed

SpecZip == InitZip /\ [][NextZip]_vars

\* downloadAllAsZip called as a function, whatever the result list holds.
CallDownloadAllAsZip == downloadAllAsZip

NextZipCall == NextZip \/ CallDownloadAllAsZip

SpecZipCall == InitZip /\ [][NextZipCall]_vars

\* Runs, Clear All, archive exports and downloads of single icons.
NextLinks == NextZip \/ downloadIcon

SpecLinks == InitZip /\ [][NextLinks]_vars

\* Folders dropped on the packager, validations and packagings.
NextPackager ==
  \/ HandleFolderDrop
  \/ Validate
  \/ Package
  \/ PackageGenerated
  \/ PackageFailed

SpecPackager == Init /\ [][NextPackager]_vars

\* What n executions of the command 1 append to the entries: the command
\* and what eval gives, n times.
ExecutedEntries(n) ==
  [i \in 1..(2 * n) |->
     IF i % 2 = 1
     THEN [id |-> i, level |-> "command", message |-> <<"> ">> \o OneCommand,
           source |-> ""]
     ELSE [id |-> i, level |-> "info", message |-> <<"1">>, source |-> ""]]

\* The debug console after n executions of the command 1, from its start.
Executed(n) ==
  [dc |-> [NewConsole EXCEPT
             !.entries = LastN(ExecutedEntries(n), KeepEntries),
             !.commandHistory = LastN([i \in 1..n |-> OneCommand], KeepCommands)],
   wrappers |-> 0,
   trace |-> [NoTrace EXCEPT !.appended = ExecutedEntries(n),
                             !.executed = [i \in 1..n |-> OneCommand]]]

\* The debug console after Prefill executions of the command 1, the other
\* tools unused.
ConsoleAfter(Prefill) ==
  /\ files = <<>>
  /\ sizes = DefaultSizes
  /\ processedIcons = <<>>
  /\ isProcessing = FALSE
  /\ progress = Zero
  /\ toast = ""
  /\ urls = <<>>
  /\ run = IdleRun
  /\ successes = <<>>
  /\ shownAtStart = <<>>
  /\ NoExport
  /\ packager = NewPackager
  /\ debugConsole = Executed(Prefill).dc
  /\ consoleWrappers = Executed(Prefill).wrappers
  /\ consoleTrace = Executed(Prefill).trace

\* The debug console when it is opened.
InitConsole == ConsoleAfter(0)

NextConsole ==
  \/ setCommand
  \/ handleKeyDown
  \/ executeCommand
  \/ clearConsole
  \/ ToggleCapture
  \/ ConsoleCall

SpecConsole == InitConsole /\ [][NextConsole]_vars

\* The debug console one command short of a full command history, and one
\* command short of a full entry list.
InitKeep ==
  \E n \in {KeepCommands - 1, (KeepEntries \div 2) - 1} : ConsoleAfter(n)

\* Everything that appends to the entries or to the command history, and the
\* clearing of the entries; walking a full history with the arrow keys appends
\* nothing.
NextKeep ==
  setCommand \/ executeCommand \/ clearConsole \/ ToggleCapture \/ ConsoleCall

SpecKeep == InitKeep /\ [][NextKeep]_vars

\* "50"
FiftyText == <<"5","0">>

\* A PNG file that decodes to an image of the given width and height.
ImageOf(width, height) ==
  [name |-> <<"i",".","p","n","g">>, type |-> "image/png", decodes |-> TRUE,
   width |-> width, height |-> height]

\* Runs over one file, for every image of up to MaxDim x MaxDim pixels, the
\* 100 x 50 image of logo.svg and a file that does not decode.
InitDraw ==
  /\ files \in {<<ImageOf(w, h)>> : w, h \in 1..MaxDim}
                \cup {<<LogoSvg>>, <<BadSvg>>}
  /\ sizes \in {FiftyText, TwoSizes}
  /\ processedIcons = <<>>
  /\ isProcessing = FALSE
  /\ progress = Zero
  /\ toast = ""
  /\ urls = <<>>
  /\ run = IdleRun
  /\ successes = <<>>
  /\ shownAtStart = <<>>
  /\ NoExport
  /\ ToolsUnused

SpecDraw == InitDraw /\ [][NextParse]_vars

\* The characters of the file names SpecNames enumerates.
NameAlphabet == {"a", "."}

RECURSIVE NamesOfLen(_)
NamesOfLen(n) ==
  IF n = 0 THEN {<<>>}
  ELSE {Append(t, c) : t \in NamesOfLen(n - 1), c \in NameAlphabet}

\* "icon.png" and "icon"
IconPngName == <<"i","c","o","n",".","p","n","g">>
IconName == <<"i","c","o","n">>

FileNames ==
  UNION {NamesOfLen(n) : n \in 1..MaxNameLen}
    \cup {LogoPng.name, IconPngName, IconName}

\* A PNG file of the given name that the browser can decode.
ImageNamed(name) ==
  [name |-> name, type |-> "image/png", decodes |-> TRUE,
   width |-> 64, height |-> 64]

\* Runs over one file, for every file name of FileNames.
InitNames ==
  /\ files \in {<<ImageNamed(n)>> : n \in FileNames} \cup {<<BadSvg>>}
  /\ sizes \in {TwoSizes, RepeatedSizes}
  /\ processedIcons = <<>>
  /\ isProcessing = FALSE
  /\ progress = Zero
  /\ toast = ""
  /\ urls = <<>>
  /\ run = IdleRun
  /\ successes = <<>>
  /\ shownAtStart = <<>>
  /\ NoExport
  /\ ToolsUnused

SpecNames == InitNames /\ [][NextParse]_vars

\* The files of the selections SpecOrder starts from: two that decode, of
\* different names and shapes, and one that does not.
OrderPool == {LogoPng, LogoSvg, BadSvg}

RECURSIVE FileListsOfLen(_)
FileListsOfLen(n) ==
  IF n = 0 THEN {<<>>}
  ELSE {Append(fs, f) : fs \in FileListsOfLen(n - 1), f \in OrderPool}

\* Runs and Clear All over every selection of up to MaxFiles files of
\* OrderPool, in every order.
InitOrder ==
  /\ files \in UNION {FileListsOfLen(n) : n \in 1..MaxFiles}
  /\ sizes \in {TwoSizes, RepeatedSizes, DefaultSizes}
  /\ processedIcons = <<>>
  /\ isProcessing = FALSE
  /\ progress = Zero
  /\ toast = ""
  /\ urls = <<>>
  /\ run = IdleRun
  /\ successes = <<>>
  /\ shownAtStart = <<>>
  /\ NoExport
  /\ ToolsUnused

NextOrder ==
  \/ GenerateIcons
  \/ ImageLoaded
  \/ ImageError
  \/ BlobReady
  \/ ClearAll

SpecOrder == InitOrder /\ [][NextOrder]_vars

\* ----------------------------------------------------------------- claims
\* A continuation of processImages ends the run with "Processing complete!".
RunCompletes ==
  /\ run.pc # "idle"
  /\ run'.pc = "idle"
  /\ toast' = "Processing complete!"

\* The decode awaited by the run fails and the run takes its step.
DecodeFails ==
  /\ run.pc = "decoding"
  /\ ~run.files[run.fileIdx].decodes
  /\ run' # run

\* p <= q on fractions.
Leq(p, q) == p.num * q.den <= q.num * p.den

Hundred == Fraction(100, 1)

IconUrls == {u \in DOMAIN urls : urls[u].kind = "icon"}

\* C1: a run over a non-empty file list S and a non-empty parsed size list T
\* in which every image decodes ends with processedIcons holding exactly
\* |S| x |T| entries.
C1_ResultCount ==
  [][(RunCompletes /\ run.files # <<>> /\ run.sizeArray # <<>>)
       => Len(processedIcons') = Len(run.files) * Len(run.sizeArray)]_vars

\* C1 witness: a run over two files and two sizes has completed with four
\* entries.
C1_Witness ==
  /\ ~isProcessing
  /\ toast = "Processing complete!"
  /\ successes # <<>>
  /\ Len(successes[Len(successes)].files) = 2
  /\ Len(successes[Len(successes)].sizeArray) = 2
  /\ Len(processedIcons) = 4

\* C2 as stated: after a successful run every entry of the result list has a
\* size that matches exactly one element of the parsed sizes of the run and an
\* originalName that matches exactly one file of the file list of the run.
C2_ExactlyOne ==
  [][RunCompletes =>
       \A k \in DOMAIN processedIcons' :
         /\ Cardinality({j \in DOMAIN run.sizeArray :
                           run.sizeArray[j] = processedIcons'[k].size}) = 1
         /\ Cardinality({i \in DOMAIN run.files :
                           run.files[i].name = processedIcons'[k].originalName}) = 1]_vars

NoRepeat(seq) == \A i, j \in DOMAIN seq : seq[i] = seq[j] => i = j

\* C2 amended: after a successful run every entry of the result list has a
\* size that is an element of the parsed sizes of the run and an originalName
\* that is the name of a file of the file list of the run; the element (the
\* file) is the only one when the parsed sizes (the file names) do not repeat.
C2_Matches ==
  [][RunCompletes =>
       \A k \in DOMAIN processedIcons' :
         LET js == {j \in DOMAIN run.sizeArray :
                      run.sizeArray[j] = processedIcons'[k].size}
             is == {i \in DOMAIN run.files :
                      run.files[i].name = processedIcons'[k].originalName}
         IN /\ js # {}
            /\ is # {}
            /\ NoRepeat(run.sizeArray) => Cardinality(js) = 1
            /\ NoRepeat([i \in DOMAIN run.files |-> run.files[i].name])
                 => Cardinality(is) = 1]_vars

\* C2 witness: a completed run shows two entries of different sizes for one
\* file.
C2_Witness ==
  /\ ~isProcessing
  /\ toast = "Processing complete!"
  /\ Len(processedIcons) = 2
  /\ processedIcons[1].size # processedIcons[2].size
  /\ processedIcons[1].originalName = processedIcons[2].originalName

\* C3: the parsed list holds positive integers only, no more of them than the
\* text has comma-separated pieces; "16, 32,48 ,128" and "16,32,48,128" parse
\* to <16, 32, 48, 128> and "0,-5,abc,64" parses to <64>.  (A run is in flight
\* only for a text that parses to a non-empty list, and sizeArray is its
\* parse.)
C3_ParsedSizes ==
  run.pc # "idle" =>
    /\ \A i \in DOMAIN run.sizeArray :
         run.sizeArray[i] \in Nat /\ run.sizeArray[i] > 0
    /\ Len(run.sizeArray) >= 1
    /\ Len(run.sizeArray) <= 1 + Cardinality({i \in DOMAIN sizes : sizes[i] = ","})
    /\ sizes \in {SpacedSizes, DefaultSizes} => run.sizeArray = <<16, 32, 48, 128>>
    /\ sizes = MixedSizes => run.sizeArray = <<64>>
    /\ sizes = TwoSizes => run.sizeArray = <<16, 32>>

\* C3 witness: the run over "0,-5,abc,64" is in flight with the one size 64.
C3_Witness ==
  /\ sizes = MixedSizes
  /\ run.pc = "encoding"
  /\ run.sizeArray = <<64>>

\* C4: with at least one file selected and a size text that parses to the
\* empty list, the Generate Icons click starts no run: isProcessing is and
\* stays false, the file list, the result list and the progress are unchanged,
\* no object URL is created, and the "Invalid sizes" toast is raised.
C4_NoRunWithoutSizes ==
  [][(GenerateIcons /\ files # <<>> /\ ParseSizes(sizes) = <<>>)
       => /\ ~isProcessing /\ ~isProcessing'
          /\ files' = files
          /\ processedIcons' = processedIcons
          /\ progress' = progress
          /\ run' = run
          /\ urls' = urls
          /\ toast' = "Invalid sizes"]_vars

\* C4 witness: "Invalid sizes" was raised for "0,-1" with a file selected.
C4_Witness ==
  /\ toast = "Invalid sizes"
  /\ sizes = NonPositiveSizes
  /\ files # <<>>
  /\ ~isProcessing
  /\ run.pc = "idle"

\* C5: with an empty file list a call of processImages rejects the run
\* whatever the size text: no object URL is created (no image is decoded), no
\* icon is produced, isProcessing stays false, the result list and the
\* progress are unchanged, and the "No files selected" toast is raised.
C5_NoRunWithoutFiles ==
  [][(CallProcessImages /\ files = <<>>)
       => /\ ~isProcessing /\ ~isProcessing'
          /\ processedIcons' = processedIcons
          /\ progress' = progress
          /\ run' = run
          /\ urls' = urls
          /\ files' = files
          /\ toast' = "No files selected"]_vars

\* C5 witness: "No files selected" was raised with no file selected and a
\* size text that parses to two sizes.
C5_Witness ==
  /\ toast = "No files selected"
  /\ files = <<>>
  /\ sizes = TwoSizes
  /\ ~isProcessing
  /\ run.pc = "idle"

\* C6 as stated: when an image of a run fails to decode, the run is signaled
\* as failed and the result list after the failed run equals the result list
\* before the run started.
C6_ListAsBeforeRun ==
  [][DecodeFails => /\ toast' = "Processing failed"
                    /\ ~isProcessing'
                    /\ processedIcons' = shownAtStart]_vars

\* C6 amended: when an image of a run fails to decode, the run is signaled as
\* failed and no icon produced earlier in that run is retained: no step of the
\* run other than its successful end changes the result list, so the list
\* after the failed run is the list before the run started, or the empty list
\* when Clear All was invoked during the run.
C6_FailedRunKeepsNothing ==
  [][/\ DecodeFails =>
          /\ toast' = "Processing failed"
          /\ ~isProcessing'
          /\ processedIcons' = processedIcons
          /\ processedIcons' \in {shownAtStart, <<>>}
          /\ \A i \in DOMAIN run.newProcessedIcons :
               \A k \in DOMAIN processedIcons' :
                 processedIcons'[k].url # run.newProcessedIcons[i].url
     /\ (run' # run /\ ~RunCompletes) => processedIcons' = processedIcons]_vars

\* C6 witness: the run over logo.png and bad.svg has failed on bad.svg, after
\* the pairs of logo.png, and the results of the earlier run are still shown.
C6_Witness ==
  /\ toast = "Processing failed"
  /\ ~isProcessing
  /\ files = <<LogoPng, BadSvg>>
  /\ processedIcons # <<>>

\* C7 as stated: during a run the count of completed pairs never decreases
\* and never exceeds the total, the reported progress never decreases within
\* the run and never exceeds 100, and the count increases by one with each
\* completed pair.
C7_ProgressNeverDecreases ==
  [][/\ run'.completedOperations <= run'.totalOperations
     /\ Leq(progress', Hundred)
     /\ (run.pc # "idle" /\ run'.pc # "idle")
          => run'.completedOperations >= run.completedOperations
     /\ (run.pc = "encoding" /\ run' # run /\ run'.pc # "idle")
          => run'.completedOperations = run.completedOperations + 1
     /\ (isProcessing /\ isProcessing') => Leq(progress, progress')]_vars

\* C7 amended: during a run the count of completed pairs never decreases and
\* never exceeds |files| x |sizes|; it increases by one with each completed
\* pair, and the run then reports count / total x 100, which is at least the
\* progress shown before and at most 100; the progress shown decreases within
\* a run only when Clear All resets it to 0.
C7_ProgressOfRun ==
  [][/\ run'.completedOperations <= run'.totalOperations
     /\ run'.totalOperations = Len(run'.files) * Len(run'.sizeArray)
     /\ Leq(progress', Hundred)
     /\ (run.pc # "idle" /\ run'.pc # "idle")
          => run'.completedOperations >= run.completedOperations
     /\ (run.pc = "encoding" /\ run' # run) =>
          LET done == run.completedOperations + 1
          IN /\ progress'.num * run.totalOperations = done * 100 * progress'.den
             /\ Leq(progress, progress')
             /\ run'.pc # "idle" => run'.completedOperations = done
             /\ run'.pc = "idle" => done = run.totalOperations
     /\ (isProcessing /\ isProcessing' /\ ~Leq(progress, progress'))
          => /\ progress' = Zero
             /\ run' = run
             /\ processedIcons # <<>> /\ processedIcons' = <<>>
             /\ files' = <<>>]_vars

\* C7 witness: a run is in flight with some but not all of its pairs
\* completed, and the progress shown is count / total x 100.
C7_Witness ==
  /\ isProcessing
  /\ run.completedOperations > 0
  /\ run.completedOperations < run.totalOperations
  /\ progress.num * run.totalOperations
       = run.completedOperations * 100 * progress.den

\* C8: when a run replaces an earlier result set, the object URLs of the
\* earlier result set are revoked.
C8_SupersededReleased ==
  [][RunCompletes =>
       \A i \in DOMAIN processedIcons : ~urls'[processedIcons[i].url].live]_vars

\* C9: Clear All with no run in flight revokes the object URL of every entry
\* of the result list, empties the result list and the file list, sets
\* progress to 0 and leaves the size text unchanged.
C9_ClearAll ==
  [][(ClearAll /\ ~isProcessing)
       => /\ \A i \in DOMAIN processedIcons : ~urls'[processedIcons[i].url].live
          /\ \A u \in DOMAIN urls :
               urls'[u].live # urls[u].live
                 => \E i \in DOMAIN processedIcons : processedIcons[i].url = u
          /\ processedIcons' = <<>>
          /\ files' = <<>>
          /\ progress' = Zero
          /\ sizes' = sizes
          /\ ~isProcessing']_vars

\* C9 witness: after a completed run, Clear All has left no file, no result,
\* progress 0 and every icon URL revoked.
C9_Witness ==
  /\ ~isProcessing
  /\ successes # <<>>
  /\ processedIcons = <<>>
  /\ files = <<>>
  /\ progress = Zero
  /\ IconUrls # {}
  /\ \A u \in IconUrls : ~urls[u].live

\* C10: two successful runs over the same file list and the same parsed
\* sizes produce result lists of the same length with the same sequence of
\* derived file names, whatever happened between them (Clear All included).
C10_Repeatable ==
  \A i, j \in DOMAIN successes :
    (successes[i].files = successes[j].files
       /\ successes[i].sizeArray = successes[j].sizeArray)
      => /\ Len(successes[i].filenames) = Len(successes[j].filenames)
         /\ successes[i].filenames = successes[j].filenames

\* C10 witness: a run, Clear All, the same file selected again and the same
\* run again: the second result list is shown, the URLs of the first are
\* revoked.
C10_Witness ==
  /\ Len(successes) = 2
  /\ successes[1].files = successes[2].files
  /\ successes[1].sizeArray = successes[2].sizeArray
  /\ ~isProcessing
  /\ files = successes[2].files
  /\ Names(processedIcons) = successes[2].filenames
  /\ Len(processedIcons) = 2
  /\ Cardinality(IconUrls) = 4
  /\ Cardinality({u \in IconUrls : ~urls[u].live}) = 2

\* "_<s>x<s>.png"
SizeSuffix(s) ==
  <<"_">> \o ToDigits(s) \o <<"x">> \o ToDigits(s) \o <<".","p","n","g">>

\* "logo_16x16.png" and "logo_32x32.png"
Logo16 == <<"l","o","g","o","_","1","6","x","1","6",".","p","n","g">>
Logo32 == <<"l","o","g","o","_","3","2","x","3","2",".","p","n","g">>

\* b is name with its last extension removed: name itself when no "." of
\* name is followed by a character, else what precedes the last ".".
IsBaseOf(b, name) ==
  LET dots == {i \in DOMAIN name : name[i] = "."}
  IN IF dots = {} \/ name[Len(name)] = "."
     THEN b = name
     ELSE \E d \in dots : /\ \A j \in dots : j <= d
                          /\ b = SubSeq(name, 1, d - 1)

\* C11: the derived file name of every icon, produced or shown, is the base
\* of the name of its file followed by "_<s>x<s>.png" for its size s, the base
\* being the name with its last extension removed; logo.png with "16,32"
\* yields exactly logo_16x16.png and logo_32x32.png.
C11_DerivedFilename ==
  /\ \A icons \in {processedIcons, run.newProcessedIcons} :
       \A k \in DOMAIN icons :
         \E b \in {SubSeq(icons[k].originalName, 1, n) :
                    n \in 0..Len(icons[k].originalName)} :
           /\ IsBaseOf(b, icons[k].originalName)
           /\ icons[k].filename = b \o SizeSuffix(icons[k].size)
  /\ (files = <<LogoPng>> /\ sizes = TwoSizes /\ toast = "Processing complete!")
       => Names(processedIcons) = <<Logo16, Logo32>>

\* C11 witness: the run over logo.png with "16,32" has completed and shows
\* two entries.
C11_Witness ==
  /\ files = <<LogoPng>>
  /\ sizes = TwoSizes
  /\ toast = "Processing complete!"
  /\ Len(processedIcons) = 2
  /\ processedIcons[1].filename = Logo16

\* C12 as stated: base-name extraction is idempotent on every file name;
\* base("icon.png") = "icon" and base("icon") = "icon".
C12_Idempotent ==
  /\ \A i \in DOMAIN files :
       BaseName(BaseName(files[i].name)) = BaseName(files[i].name)
  /\ BaseName(IconPngName) = IconName
  /\ BaseName(IconName) = IconName

\* The number of "." in name.
Dots(name) == Cardinality({i \in DOMAIN name : name[i] = "."})

\* C12 amended: base(base(n)) = base(n) for every file name n with at most
\* one "."; a name with several extensions loses one at each application, so
\* base(base(n)) = base(n) exactly when base(n) has no extension left;
\* base("icon.png") = "icon" and base("icon") = "icon".
C12_IdempotentOnOneExtension ==
  /\ \A i \in DOMAIN files :
       LET n == files[i].name
       IN /\ Dots(n) <= 1 => BaseName(BaseName(n)) = BaseName(n)
          /\ BaseName(BaseName(n)) = BaseName(n) <=> IsBaseOf(BaseName(n), BaseName(n))
          /\ Dots(n) = 0 => BaseName(n) = n
  /\ \A k \in DOMAIN processedIcons :
       LET n == processedIcons[k].originalName
           b == SubSeq(processedIcons[k].filename, 1,
                       Len(processedIcons[k].filename)
                         - Len(SizeSuffix(processedIcons[k].size)))
       IN Dots(n) <= 1 => BaseName(b) = b
  /\ BaseName(IconPngName) = IconName
  /\ BaseName(IconName) = IconName

\* C12 witness: the run over the file named "icon" has completed and shows
\* icon_16x16.png.
C12_Witness ==
  /\ files = <<ImageNamed(IconName)>>
  /\ toast = "Processing complete!"
  /\ processedIcons # <<>>
  /\ processedIcons[1].filename = IconName \o SizeSuffix(16)

\* A call of downloadAllAsZip is made with a non-empty result list.
ZipStarts ==
  /\ zipCalls' = zipCalls + 1
  /\ processedIcons # <<>>

\* generateAsync has resolved and the link was clicked.
ZipDownloads == Len(downloads') = Len(downloads) + 1

C14_NothingToExport ==
  [][(zipCalls' # zipCalls /\ processedIcons = <<>>)
       => UNCHANGED <<files, sizes, processedIcons, isProcessing, progress,
                      toast, urls, run, zips, downloads, unhandled>>]_vars

\* C14 witness: downloadAllAsZip was called before any run started, and
\* no archive, download, toast or object URL came of it.
C14_Witness ==
  /\ zipCalls > 0
  /\ urls = <<>>
  /\ processedIcons = <<>>
  /\ zips = <<>>
  /\ downloads = <<>>
  /\ unhandled = 0
  /\ toast = ""

\* The generateAsync of a downloadAllAsZip call rejects.
ZipFails ==
  /\ Len(zips') < Len(zips)
  /\ downloads' = downloads

\* C15: when archive generation fails, a notification is raised for the
\* user, the rejection is handled, and no download is triggered.
C15_FailureSurfaced ==
  [][ZipFails => /\ toast' # toast
                 /\ unhandled' = unhandled
                 /\ downloads' = downloads]_vars

\* C16: after any sequence of drops, selections, runs and clears, every file
\* of the selected file list (and of the list a run works on) has MIME type
\* image/svg+xml or image/png.
C16_OnlyImages ==
  /\ \A i \in DOMAIN files : files[i].type \in {"image/svg+xml", "image/png"}
  /\ \A i \in DOMAIN run.files :
       run.files[i].type \in {"image/svg+xml", "image/png"}

\* C16 witness: a selection that offered only a text file has been handled
\* (its toast is up) and the file list is still the initial, empty one.
C16_Witness ==
  /\ toast = "Files selected!"
  /\ files = <<>>
  /\ urls = <<>>

\* The larger of two naturals.
Max(a, b) == IF a >= b THEN a ELSE b

\* The Number x is num / den exactly (naturals, den below 2^12).
Exactly(x, num, den) ==
  IF num = 0 THEN x.m = <<>>
  ELSE /\ ~x.neg
       /\ x.m # <<>>
       /\ x.e <= 0
       /\ MulSmall(x.m, den) = ShiftLeft(BigOf(num), -x.e)

\* The Number x is within (tol / den) * 2^-51 of num / den (naturals, den
\* below 2^12).
Near(x, num, den, tol) ==
  LET e == IF x.m = <<>> THEN -60 ELSE x.e
      scaled == MulSmall(x.m, den)
      ideal == ShiftLeft(BigOf(num), -e)
      diff == IF x.neg THEN Add(scaled, ideal)
              ELSE IF Cmp(scaled, ideal) >= 0 THEN Sub(scaled, ideal)
              ELSE Sub(ideal, scaled)
  IN /\ e <= 0
     /\ Cmp(ShiftLeft(diff, 51), ShiftLeft(BigOf(tol), -e)) <= 0

\* The icons produced or shown that were made from file.
IconsOf(file) ==
  {icon \in {processedIcons[k] : k \in DOMAIN processedIcons}
             \cup {run.newProcessedIcons[k] : k \in DOMAIN run.newProcessedIcons} :
     icon.originalName = file.name}

\* s / max is a dyadic rational: a Number holds it exactly.
Dyadic(s, max) == \E k \in 0..12 : (s * 2^k) % max = 0

\* C17 as stated: every icon made from an image of width w and height h at
\* size s shows it with scaledWidth = w*s/max(w,h) and scaledHeight =
\* h*s/max(w,h) (the Numbers nearest to these values), both at most s and one
\* of them s, at offsetX = (s - scaledWidth)/2 >= 0 and offsetY =
\* (s - scaledHeight)/2 >= 0; a 100x50 image at size 50 gives 50, 25, 0 and
\* 12.5.
C17_ExactFit ==
  \A i \in DOMAIN files : \A icon \in IconsOf(files[i]) :
    LET w == files[i].width
        h == files[i].height
        size == icon.size
        max == Max(w, h)
        d == icon.blob.drawn
    IN /\ d.width = Quotient(w * size, max)
       /\ d.height = Quotient(h * size, max)
       /\ ~Less(NumberOf(size), d.width)
       /\ ~Less(NumberOf(size), d.height)
       /\ d.width = NumberOf(size) \/ d.height = NumberOf(size)
       /\ d.x = Quotient(size * (max - w), 2 * max)
       /\ d.y = Quotient(size * (max - h), 2 * max)
       /\ (w = 100 /\ h = 50 /\ size = 50) =>
            /\ d.width = NumberOf(50)
            /\ d.height = NumberOf(25)
            /\ d.x = ZeroNumber
            /\ d.y = Halve(NumberOf(25))

\* C17 amended: for w, h and s below 2^26, scaledWidth and scaledHeight are
\* w*s/max(w,h) and h*s/max(w,h) as double precision arithmetic gives them
\* (scale = min(s/w, s/h), then w*scale and h*scale), each within a
\* relative error of 2^-51 of that value, so both are at most s * (1 + 2^-51)
\* and one of them is within s * 2^-51 of s; offsetX and offsetY are within
\* s * 2^-51 of (s - w*s/max(w,h))/2 and (s - h*s/max(w,h))/2, so at least
\* -s * 2^-51.  Whenever s/max(w,h) is a dyadic rational the values are exact:
\* both sizes are at most s, one is s and both offsets are at least 0; a
\* 100x50 image at size 50 gives 50, 25, 0 and 12.5.
C17_FitWithinRounding ==
  \A i \in DOMAIN files : \A icon \in IconsOf(files[i]) :
    LET w == files[i].width
        h == files[i].height
        size == icon.size
        max == Max(w, h)
        d == icon.blob.drawn
    IN /\ Near(d.width, w * size, max, w * size)
       /\ Near(d.height, h * size, max, h * size)
       /\ ~d.width.neg /\ ~d.height.neg
       /\ Near(d.width, size, 1, size) \/ Near(d.height, size, 1, size)
       /\ Near(d.x, size * (max - w), 2 * max, size * 2 * max)
       /\ Near(d.y, size * (max - h), 2 * max, size * 2 * max)
       /\ d.x.neg => Near(d.x, 0, 1, size)
       /\ d.y.neg => Near(d.y, 0, 1, size)
       /\ Dyadic(size, max) =>
            /\ Exactly(d.width, w * size, max)
            /\ Exactly(d.height, h * size, max)
            /\ d.width = NumberOf(size) \/ d.height = NumberOf(size)
            /\ Exactly(d.x, size * (max - w), 2 * max)
            /\ Exactly(d.y, size * (max - h), 2 * max)
       /\ (w = 100 /\ h = 50 /\ size = 50) =>
            /\ d.width = NumberOf(50)
            /\ d.height = NumberOf(25)
            /\ d.x = ZeroNumber
            /\ d.y = Halve(NumberOf(25))

\* C17 witness: the icon of the 100x50 image at size 50 is shown, drawn 50
\* wide and 25 high at (0, 12.5).
C17_Witness ==
  /\ files = <<LogoSvg>>
  /\ sizes = FiftyText
  /\ Len(processedIcons) = 1
  /\ processedIcons[1].size = 50
  /\ processedIcons[1].blob.drawn.width = NumberOf(50)
  /\ processedIcons[1].blob.drawn.height = NumberOf(25)
  /\ processedIcons[1].blob.drawn.x = ZeroNumber
  /\ processedIcons[1].blob.drawn.y = Halve(NumberOf(25))

\* C18: every icon, produced or shown, is the PNG of a canvas whose width and
\* height both equal the size recorded in the icon, and the canvas being
\* encoded is a square of the size at hand.
C18_SquareCanvas ==
  /\ \A icons \in {processedIcons, run.newProcessedIcons} :
       \A k \in DOMAIN icons :
         /\ icons[k].blob.width = icons[k].size
         /\ icons[k].blob.height = icons[k].size
  /\ run.pc = "encoding" =>
       /\ run.canvas.width = run.sizeArray[run.sizeIdx]
       /\ run.canvas.height = run.sizeArray[run.sizeIdx]

\* C18 witness: the 32 x 32 icon of logo.png is shown next to the 16 x 16 one.
C18_Witness ==
  /\ Len(processedIcons) = 2
  /\ processedIcons[2].originalName = LogoPng.name
  /\ processedIcons[2].size = 32
  /\ processedIcons[2].blob.width = 32
  /\ processedIcons[2].blob.height = 32
  /\ processedIcons[1].blob.width = 16

\* A step starts a run: processImages has reached its first await.
RunStarts ==
  /\ run' # run
  /\ run'.pc = "decoding"
  /\ run'.fileIdx = 1
  /\ run'.completedOperations = 0

\* C19 as stated: nothing prevents a second run while one is in flight: with
\* a run active and files selected, the Generate Icons button can be clicked.
C19_SecondRunCanStart ==
  (isProcessing /\ files # <<>>) => ~GenerateDisabled

\* C19 amended: the Generate Icons button is disabled while isProcessing is
\* true, so the user's action starts no run while one is in flight: a run
\* starts only from a state where none is active, and isProcessing is true
\* exactly while a run is in flight.
C19_OneRunAtATime ==
  [][/\ RunStarts => (~isProcessing /\ run.pc = "idle")
     /\ isProcessing => GenerateDisabled
     /\ isProcessing' <=> run'.pc # "idle"]_vars

\* C19 witness: a run is in flight, a pair of it is done, the files and the
\* size text would allow a run within the bound on URLs, and the button is
\* disabled.
C19_Witness ==
  /\ isProcessing
  /\ run.completedOperations > 0
  /\ files # <<>>
  /\ ParseSizes(sizes) # <<>>
  /\ Len(urls) + UrlsNeeded(files, ParseSizes(sizes)) + 2 <= MaxUrls
  /\ GenerateDisabled

\* The run in flight ends with every (image, size) pair processed.
EndsComplete ==
  /\ run.pc = "encoding"
  /\ run.fileIdx = Len(run.files)
  /\ run.sizeIdx = Len(run.sizeArray)
  /\ run.completedOperations + 1 = run.totalOperations
  /\ toast' = "Processing complete!"
  /\ Len(processedIcons') = Len(run.files) * Len(run.sizeArray)

\* The run in flight ends at its first decode failure.
EndsAtFirstFailure ==
  /\ run.pc = "decoding"
  /\ ~run.files[run.fileIdx].decodes
  /\ \A i \in 1..(run.fileIdx - 1) : run.files[i].decodes
  /\ run.completedOperations = (run.fileIdx - 1) * Len(run.sizeArray)
  /\ toast' = "Processing failed"

\* C20: with every decode ending and every encode calling back, a run that
\* has set isProcessing to true sets it back to false; it does so only at the
\* end of the run, after every (image, size) pair or at the first decode
\* failure, and no other step (Clear All, adding files, editing the size
\* text) ends the run or changes what it has left to do.
C20_RunEnds ==
  /\ isProcessing ~> ~isProcessing
  /\ [][/\ (isProcessing /\ ~isProcessing') =>
             /\ run.pc # "idle" /\ run'.pc = "idle"
             /\ EndsComplete \/ EndsAtFirstFailure
        /\ (run.pc # "idle" /\ run'.pc = "idle") => ~isProcessing'
        /\ (run.pc # "idle" /\ (files' # files \/ sizes' # sizes))
             => (run' = run /\ isProcessing')]_vars

\* C20 witness: Clear All was invoked during a run (no file is selected any
\* more) and the run has gone on to its end: its results are shown.
C20_Witness ==
  /\ ~isProcessing
  /\ toast = "Processing complete!"
  /\ files = <<>>
  /\ processedIcons # <<>>

\* The file and the size of pair number k of the run in flight, the pairs
\* being counted file by file and, within a file, size by size.
PairFile(k) == run.files[((k - 1) \div Len(run.sizeArray)) + 1]
PairSize(k) == run.sizeArray[((k - 1) % Len(run.sizeArray)) + 1]

\* icons holds the first Len(icons) pairs of the run in flight, in order.
PairsInOrder(icons) ==
  \A k \in DOMAIN icons :
    /\ icons[k].originalName = PairFile(k).name
    /\ icons[k].size = PairSize(k)
    /\ icons[k].blob.width = PairSize(k)

ImageUrls == {u \in DOMAIN urls : urls[u].kind = "image"}

\* Where the run in flight stands: every earlier file has decoded and has all
\* its sizes done, the file at hand is decoded before its first canvas is
\* made, and the icons made so far are the first pairs in order.
RunInOrder ==
  run.pc # "idle" =>
    LET n == Len(run.sizeArray)
        file == run.files[run.fileIdx]
    IN /\ run.fileIdx \in 1..Len(run.files)
       /\ \A i \in 1..(run.fileIdx - 1) : run.files[i].decodes
       /\ Cardinality(ImageUrls) >= run.fileIdx
       /\ Len(run.newProcessedIcons) = run.completedOperations
       /\ PairsInOrder(run.newProcessedIcons)
       /\ run.pc = "decoding" =>
            /\ run.completedOperations = (run.fileIdx - 1) * n
            /\ run.img = NewImage
       /\ run.pc = "encoding" =>
            /\ file.decodes
            /\ run.img = [width |-> file.width, height |-> file.height]
            /\ run.sizeIdx \in 1..n
            /\ run.completedOperations = (run.fileIdx - 1) * n + run.sizeIdx - 1
            /\ run.canvas.width = run.sizeArray[run.sizeIdx]

\* C21: a run takes the files in list order and, within a file, the sizes in
\* parsed order: a canvas is made for a file only after its decode, the next
\* file is decoded only after every size of the file before it, no file after
\* the first that fails is decoded, and a successful run shows its icons
\* ordered by (file index, size index).
C21_InOrder ==
  /\ []RunInOrder
  /\ [][/\ (run.pc = "encoding" /\ run' # run /\ run'.pc = "encoding")
             => /\ run'.fileIdx = run.fileIdx
                /\ run'.sizeIdx = run.sizeIdx + 1
        /\ (run.pc # "idle" /\ run' # run /\ run'.pc = "decoding")
             => /\ run.pc = "encoding"
                /\ run.sizeIdx = Len(run.sizeArray)
                /\ run'.fileIdx = run.fileIdx + 1
                /\ Cardinality(ImageUrls') = Cardinality(ImageUrls) + 1
        /\ (run.pc = "decoding" /\ run' # run /\ run'.pc = "encoding")
             => /\ run'.fileIdx = run.fileIdx
                /\ run'.sizeIdx = 1
        /\ DecodeFails
             => /\ run'.pc = "idle"
                /\ ImageUrls' = ImageUrls
        /\ RunCompletes
             => /\ Len(processedIcons') = Len(run.files) * Len(run.sizeArray)
                /\ PairsInOrder(processedIcons')]_vars

\* C21 witness: the run over logo.png and logo.svg with the sizes 16 and 32
\* has completed and shows logo.png at 16 and 32, then logo.svg at 16 and 32.
C21_Witness ==
  /\ ~isProcessing
  /\ toast = "Processing complete!"
  /\ Len(processedIcons) = 4
  /\ processedIcons[1].originalName = LogoPng.name /\ processedIcons[1].size = 16
  /\ processedIcons[2].originalName = LogoPng.name /\ processedIcons[2].size = 32
  /\ processedIcons[3].originalName = LogoSvg.name /\ processedIcons[3].size = 16
  /\ processedIcons[4].originalName = LogoSvg.name /\ processedIcons[4].size = 32

\* The places of the first and of the last icon of the given file name.
FirstOf(icons, name) ==
  CHOOSE k \in DOMAIN icons :
    /\ icons[k].filename = name
    /\ \A l \in DOMAIN icons : icons[l].filename = name => k <= l
LastOf(icons, name) ==
  CHOOSE k \in DOMAIN icons :
    /\ icons[k].filename = name
    /\ \A l \in DOMAIN icons : icons[l].filename = name => l <= k

Clears ==
  /\ processedIcons # <<>>
  /\ processedIcons' = <<>>
  /\ files' = <<>>

\* C23 as stated: Clear All stays in effect through a run in flight: whenever
\* no run is active and the selected file list is empty, the result list is
\* empty.
C23_ClearStays ==
  (run.pc = "idle" /\ files = <<>>) => processedIcons = <<>>

\* C23 amended: Clear All empties the result list, the file list and the
\* progress at the moment it is invoked and leaves a run in flight as it is:
\* the run sets the progress at each pair it does next and, when it
\* completes, shows its own results whatever the file list then holds; when
\* it fails the list stays as Clear All left it.  Outside a run an empty
\* result list stays empty, so with no run active and no file selected the
\* result list is empty or is the result of the last completed run.
C23_ClearAndRun ==
  /\ [](run.pc = "idle" /\ files = <<>> /\ processedIcons # <<>>
          => /\ successes # <<>>
             /\ Names(processedIcons) = successes[Len(successes)].filenames)
  /\ [][/\ Clears => /\ progress' = Zero
                     /\ run' = run
                     /\ isProcessing' = isProcessing
        /\ (run.pc = "encoding" /\ run' # run)
             => /\ run'.pc # "idle" =>
                     progress' = Percent(run.completedOperations + 1,
                                         run.totalOperations)
                /\ run'.pc = "idle" =>
                     /\ Len(processedIcons') = run.totalOperations
                     /\ processedIcons' # <<>>
                     /\ files' = files
        /\ DecodeFails => processedIcons' = processedIcons
        /\ (run.pc = "idle" /\ run'.pc = "idle" /\ processedIcons = <<>>)
             => processedIcons' = <<>>]_vars

\* C23 witness: Clear All was invoked during the second run, which then
\* completed: no file is selected, no run is active, and the results of that
\* run are shown with the progress it last set.
C23_Witness ==
  /\ run.pc = "idle"
  /\ ~isProcessing
  /\ files = <<>>
  /\ Len(successes) = 2
  /\ Names(processedIcons) = successes[2].filenames
  /\ processedIcons # <<>>
  /\ progress # Zero

\* C24: a run that ends in failure leaves no object URL of its own unrevoked:
\* when the decode of an image fails, the source object URL of that image and
\* the result object URLs of the pairs completed before it are revoked by the
\* time isProcessing is false again.
C24_FailedRunReleases ==
  [][(DecodeFails /\ ~isProcessing')
       => /\ ~urls'[run.imageUrl].live
          /\ \A k \in DOMAIN run.newProcessedIcons :
               ~urls'[run.newProcessedIcons[k].url].live]_vars

\* A link is clicked.
LinkClicked == Len(downloads') = Len(downloads) + 1

\* C25: no released handle stays in use: whatever the interleaving of runs,
\* clears and downloads, every entry of the displayed result list refers to an
\* object URL that is not revoked, the link a download clicks refers to one
\* that is not revoked at the click, and no object URL is revoked twice.
C25_NoReleasedHandleInUse ==
  /\ [](\A k \in DOMAIN processedIcons :
          /\ processedIcons[k].url \in DOMAIN urls
          /\ urls[processedIcons[k].url].live)
  /\ [](\A u \in DOMAIN urls :
          /\ urls[u].revoked <= 1
          /\ urls[u].live <=> urls[u].revoked = 0)
  /\ [][LinkClicked =>
          LET link == downloads'[Len(downloads')]
          IN IF link.href \in DOMAIN urls
             THEN urls[link.href].live /\ urls' = urls
             ELSE /\ link.href = Len(urls')
                  /\ urls'[link.href].kind = "zip"
                  /\ urls'[link.href].revoked = 1]_vars

\* C25 witness: the results of a second run are shown, one of them was
\* downloaded, and the results of the first run were revoked by Clear All.
C25_Witness ==
  /\ processedIcons # <<>>
  /\ \E u \in IconUrls : urls[u].revoked = 1
  /\ \E d \in DOMAIN downloads :
       \E k \in DOMAIN processedIcons :
         /\ downloads[d].href = processedIcons[k].url
         /\ urls[processedIcons[k].url].live

\* C26: a run works on a snapshot: its files, its sizes and its total are
\* those of the file list and the size text at the step that starts it, they
\* stay so until the run ends whatever is added, edited or cleared meanwhile,
\* and a completed run shows the pairs of that snapshot, one entry each.
C26_Snapshot ==
  [][/\ RunStarts
          => /\ run'.files = files
             /\ run'.sizeArray = ParseSizes(sizes)
             /\ run'.totalOperations = Len(files) * Len(ParseSizes(sizes))
             /\ run'.newProcessedIcons = <<>>
     /\ (run.pc # "idle" /\ run'.pc # "idle")
          => /\ run'.files = run.files
             /\ run'.sizeArray = run.sizeArray
             /\ run'.totalOperations = run.totalOperations
     /\ (run.pc # "idle" /\ (files' # files \/ sizes' # sizes))
          => /\ run'.newProcessedIcons = run.newProcessedIcons
             /\ run'.completedOperations = run.completedOperations
     /\ RunCompletes
          => /\ Len(processedIcons') = run.totalOperations
             /\ PairsInOrder(processedIcons')]_vars

\* C26 witness: a run over one file and the sizes 16 and 32 has completed
\* with its two entries, although a file was added while it was in flight and
\* the size text now reads otherwise.
C26_Witness ==
  /\ ~isProcessing
  /\ toast = "Processing complete!"
  /\ successes # <<>>
  /\ successes[Len(successes)].files = <<LogoPng>>
  /\ successes[Len(successes)].sizeArray = <<16, 32>>
  /\ Len(files) = 2
  /\ sizes = RepeatedSizes
  /\ Len(processedIcons) = 2
  /\ processedIcons[1].size = 16
  /\ processedIcons[2].size = 32

\* The manifest.json of a file set, parsed: <<>> when the set has none or it
\* does not parse.
ManifestOf(fs) ==
  LET found == SelectSeq(fs, LAMBDA f : f.name = ManifestJsonName)
  IN IF found # <<>> /\ Head(found).parses THEN <<Head(found).json>> ELSE <<>>

\* packageExtension builds an archive.
BuildsPackage ==
  /\ packager.zip = <<>>
  /\ packager'.zip # <<>>

\* C27: the packager builds an archive only for a file set that was validated
\* without errors: when packageExtension builds the zip, the manifest held is
\* that of the manifest.json of the files loaded, and the validation results
\* held were computed for those files and have no entry of type error.
C27_PackagesValidated ==
  [][BuildsPackage =>
       /\ packager.manifest # <<>>
       /\ packager.manifest = ManifestOf(packager.files)
       /\ packager.validatedFor = <<packager.files>>
       /\ ErrorCount(packager.validationResults) = 0]_vars

\* kept is the last n (all of them when there are no more than n), in order.
KeepsLast(kept, all, n) ==
  /\ Len(kept) = (IF Len(all) < n THEN Len(all) ELSE n)
  /\ \A i \in 1..Len(kept) : kept[i] = all[Len(all) - Len(kept) + i]

\* C28: the entry list has at most 1000 entries and the command history at
\* most 50 commands, and each holds, in the order of appending, the last of
\* what was appended since the last clear (the history is never cleared).
C28_KeepsMostRecent ==
  /\ Len(debugConsole.entries) <= KeepEntries
  /\ Len(debugConsole.commandHistory) <= KeepCommands
  /\ KeepsLast(debugConsole.entries, consoleTrace.appended, KeepEntries)
  /\ KeepsLast(debugConsole.commandHistory, consoleTrace.executed, KeepCommands)

\* More than 1000 entries were appended since the last clear and more than 50
\* commands executed, and the last execution added its two entries.
C28_Witness ==
  /\ Len(consoleTrace.appended) > KeepEntries
  /\ Len(consoleTrace.executed) > KeepCommands
  /\ Len(debugConsole.entries) = KeepEntries
  /\ Len(debugConsole.commandHistory) = KeepCommands
  /\ debugConsole.entries[KeepEntries].id = Len(consoleTrace.appended)

\* A call of console.log, console.warn, console.error or console.info by the
\* page.
CallsConsole == consoleTrace'.consoleCalls = consoleTrace.consoleCalls + 1

\* The number of entries the step appends.
EntriesAppended == Len(consoleTrace'.appended) - Len(consoleTrace.appended)

\* C29: a console.log, console.warn, console.error or console.info call
\* appends no entry while capturing is off, so none after Stop Capture, and
\* exactly one entry while capturing is on, also after a later Start Capture.
C29_StopEndsCapture ==
  [][CallsConsole =>
       EntriesAppended = (IF debugConsole.isCapturing THEN 1 ELSE 0)]_vars

\* historyIndex is an index of the command history (counted from 0).
ValidIndex ==
  /\ 0 <= debugConsole.historyIndex
  /\ debugConsole.historyIndex < Len(debugConsole.commandHistory)

\* C30: after any executions and ArrowUp / ArrowDown key presses historyIndex
\* is -1 or a valid index of the command history, and while it is a valid
\* index and the field was not edited after the key press that set it, the
\* command field shows commandHistory[historyIndex].
C30_HistoryIndex ==
  /\ debugConsole.historyIndex = -1 \/ ValidIndex
  /\ (ValidIndex /\ ~consoleTrace.edited) =>
       debugConsole.command =
         debugConsole.commandHistory[debugConsole.historyIndex + 1]

\* Two different commands were executed and the arrow keys went up to the
\* older one, which the command field shows.
C30_Witness ==
  /\ Len(debugConsole.commandHistory) >= 2
  /\ debugConsole.commandHistory[1] # debugConsole.commandHistory[2]
  /\ debugConsole.historyIndex = 0
  /\ ~consoleTrace.edited
  /\ debugConsole.command = debugConsole.commandHistory[1]

====
